---- MODULE Spec2Model ----
(***************************************************************************)
(* Model of bazarr/get_subtitle.py: the adaptive search gate               *)
(* (is_search_active / updateFailedAttempts), the wanted flow that drives  *)
(* it, and the provider pool cache with the update_pools wrapper.          *)
(*                                                                         *)
(* Time is counted in days: timedelta(days=N) is N, timedelta(weeks=N) is  *)
(* 7 * N, a timestamp is the day on which datetime.now() was read.         *)
(***************************************************************************)
EXTENDS Integers, Sequences, FiniteSets, TLC

VARIABLES
    now,                \* datetime.now(), in days
    settings,           \* settings.general
    input_attempts,     \* the attempt_string argument of the gate functions
    last_op,            \* the gate function called at this instant and its language
    active,             \* what is_search_active returned or raised
    updated,            \* what updateFailedAttempts returned or raised
    failedAttempts,     \* the item's failedAttempts column
    missing_subtitles,  \* the item's missing_subtitles column
    wanted,             \* the run of _wanted_episode / _wanted_movie in progress
    searches,           \* per language, when generate_subtitles searched it
    batch,              \* the run of series_download_subtitles in progress
    refined,            \* a video descriptor being resolved by get_video: the guess,
                        \* the library row and the descriptor after refine_from_db
    threads,            \* the threads inside _get_pool / generate_subtitles: where
                        \* each one is, and its local variables
    objects,            \* the pool objects created so far, in order of creation
    movies,             \* the run of movies_download_subtitles in progress
    job,                \* the run of a wanted sweep, of upgrade_subtitles or of
                        \* episode_download_subtitles in progress
    config,             \* what get_providers(), get_providers_auth(), get_blacklist()
                        \* and the profile's title filters currently return
    _pools,             \* the module-level pool cache
    call                \* the pool or orchestrator call made last: its arguments,
                        \* the pool operations it performed, in order, and how it ended

gateVars == <<input_attempts, last_op, active, updated>>
recordVars == <<failedAttempts>>
poolVars == <<config, _pools, call>>
wantedVars == <<missing_subtitles, wanted, searches>>
batchVars == <<batch>>
sideVars == <<refined, threads, objects, movies, job>>
vars == <<now, settings, input_attempts, last_op, active, updated, failedAttempts,
          config, _pools, call, missing_subtitles, wanted, searches, batch,
          refined, threads, objects, movies, job>>

\* ------------------------------------------------------------------------
\* Bounds of the model
\* ------------------------------------------------------------------------
MaxNow == 9           \* the clock runs over days 0..MaxNow
MaxHist == 3          \* length of the well-formed attempt histories drawn as inputs
MaxBad == 2           \* length of the malformed attempt histories drawn as inputs
MaxDay == 4           \* the wanted job runs over days 0..MaxDay
MaxLang == 2          \* number of languages of one search call
MaxCand == 3          \* number of subtitles the providers list for one manual search
MaxPrev == 2          \* previous scores of the upgrade flow run over 0..MaxPrev
MaxEpisodes == 3     \* number of episodes of one series_download_subtitles run
MaxThreads == 2      \* threads inside the pool functions at the same time

\* ------------------------------------------------------------------------
\* Python values that appear in the failedAttempts / missing_subtitles
\* columns
\* ------------------------------------------------------------------------
\* A missing-subtitles token "xx", "xx:hi" or "xx:forced".
Token(code, mod) == [code |-> code, mod |-> mod]

EN == Token("en", "")
FR == Token("fr", "")
EN_HI == Token("en", "hi")

Tokens == {EN, EN_HI, FR}

\* Python's ordering of the token strings ("en" < "en:forced" < "en:hi" < "fr").
CodeRank(c) == CASE c = "en" -> 1 [] c = "fr" -> 2 [] OTHER -> 3
ModRank(m) == CASE m = "" -> 0 [] m = "forced" -> 1 [] m = "hi" -> 2 [] OTHER -> 3
StrLess(a, b) ==
    \/ CodeRank(a.code) < CodeRank(b.code)
    \/ CodeRank(a.code) = CodeRank(b.code) /\ ModRank(a.mod) < ModRank(b.mod)

\* Second element of an attempt: a number, the text 'x', None, or the float
\* inf (written 1e999 in the column), which datetime.fromtimestamp cannot
\* represent and which str() writes as `inf`.
Num(n) == [k |-> "num", v |-> n]
StrTs == [k |-> "str", v |-> 0]
NoneTs == [k |-> "none", v |-> 0]
InfTs == [k |-> "inf", v |-> 0]

\* Elements of the parsed list: [lang, ts], [lang], [] or a scalar such as 1.
Pair(l, t) == [kind |-> "pair", lang |-> l, ts |-> t]
Single(l) == [kind |-> "single", lang |-> l, ts |-> Num(0)]
EmptyEntry == [kind |-> "empty", lang |-> EN, ts |-> Num(0)]
ScalarEntry == [kind |-> "scalar", lang |-> EN, ts |-> Num(0)]

\* What ast.literal_eval makes of the column text: SyntaxError ("garbage("),
\* a ValueError or a value that is not a list ("abc", "None", "5"), or a list.
SyntaxText == [kind |-> "syntax", items |-> <<>>]
NonList == [kind |-> "nonlist", items |-> <<>>]
List(items) == [kind |-> "list", items |-> items]

\* Result of a call: the exception that left it ("none" if it returned).
Ret(v) == [exc |-> "none", val |-> v]
Raise(e, v) == [exc |-> e, val |-> v]

\* ------------------------------------------------------------------------
\* settings.general.adaptive_searching_delay / _delta: text such as "3w",
\* one string per character
\* ------------------------------------------------------------------------
Digits == {"0", "1", "2", "3", "4", "5", "6", "7", "8", "9"}
DigitVal(c) ==
    CASE c = "0" -> 0 [] c = "1" -> 1 [] c = "2" -> 2 [] c = "3" -> 3
      [] c = "4" -> 4 [] c = "5" -> 5 [] c = "6" -> 6 [] c = "7" -> 7
      [] c = "8" -> 8 [] c = "9" -> 9 [] OTHER -> 0

endswith(s, c) == Len(s) > 0 /\ s[Len(s)] = c

\* int(text[:1]): the first character only
IntOfFirstChar(s) ==
    IF Len(s) > 0 /\ s[1] \in Digits THEN Ret(DigitVal(s[1])) ELSE Raise("ValueError", 0)

\* lines 1836-1843 and 1846-1853: ok = FALSE is the "cannot parse" branch
ParseWindow(s) ==
    IF endswith(s, "d") THEN
        LET n == IntOfFirstChar(s)
        IN  [ok |-> TRUE, exc |-> n.exc, days |-> n.val]
    ELSE IF endswith(s, "w") THEN
        LET n == IntOfFirstChar(s)
        IN  [ok |-> TRUE, exc |-> n.exc, days |-> 7 * n.val]
    ELSE [ok |-> FALSE, exc |-> "none", days |-> 0]

\* ------------------------------------------------------------------------
\* sorted(..., key=...) as Python computes it: stable
\* ------------------------------------------------------------------------
TsLess(a, b) ==
    \/ a.k = "num" /\ b.k = "num" /\ a.v < b.v
    \/ a.k = "num" /\ b.k = "inf"

\* index of the first element whose timestamp is greater than x's
RECURSIVE FirstGreaterTs(_, _, _)
FirstGreaterTs(s, x, i) ==
    IF i > Len(s) THEN i
    ELSE IF TsLess(x.ts, s[i].ts) THEN i
    ELSE FirstGreaterTs(s, x, i + 1)

InsertAt(s, x, i) == SubSeq(s, 1, i - 1) \o <<x>> \o SubSeq(s, i, Len(s))

RECURSIVE SortByTs(_)
SortByTs(s) ==
    IF s = <<>> THEN <<>>
    ELSE LET front == SortByTs(SubSeq(s, 1, Len(s) - 1))
             x == s[Len(s)]
         IN  InsertAt(front, x, FirstGreaterTs(front, x, 1))

RECURSIVE FirstGreaterLang(_, _, _)
FirstGreaterLang(s, x, i) ==
    IF i > Len(s) THEN i
    ELSE IF StrLess(x.lang, s[i].lang) THEN i
    ELSE FirstGreaterLang(s, x, i + 1)

RECURSIVE SortByLang(_)
SortByLang(s) ==
    IF s = <<>> THEN <<>>
    ELSE LET front == SortByLang(SubSeq(s, 1, Len(s) - 1))
             x == s[Len(s)]
         IN  InsertAt(front, x, FirstGreaterLang(front, x, 1))

SelectSeq2_mut_first_only(s, l, keep) ==
    LET kept == SelectSeq(s, LAMBDA x : (x.lang = l) = keep)
    IN  IF Len(kept) > 1 THEN <<kept[1]>> ELSE kept

RECURSIVE SelectSeq2(_, _, _)
\* [x for x in s if (x.lang = l) = keep]
SelectSeq2(s, l, keep) ==
    IF s = <<>> THEN <<>>
    ELSE LET rest == SelectSeq2(Tail(s), l, keep)
         IN  IF (Head(s).lang = l) = keep THEN <<Head(s)>> \o rest ELSE rest

\* The exception raised by [x for x in attempts if x[0] == lang]: x[0] of
\* the first element that has none.
RECURSIVE SubscriptZeroExc(_)
SubscriptZeroExc(s) ==
    IF s = <<>> THEN "none"
    ELSE IF Head(s).kind = "scalar" THEN "TypeError"
    ELSE IF Head(s).kind = "empty" THEN "IndexError"
    ELSE SubscriptZeroExc(Tail(s))

\* The exception raised by sorted(s, key=lambda x: x[1]): the keys are taken
\* first (x[1] of a one-element list), then compared. Every key of a list of
\* two or more is compared with another one: None is ordered against nothing
\* (not even None), a str only against a str.
SortKeyExc(s) ==
    IF \E i \in 1..Len(s) : s[i].kind = "single" THEN "IndexError"
    ELSE IF Len(s) >= 2 /\ \E i \in 1..Len(s) : s[i].ts.k = "none" THEN "TypeError"
    ELSE IF /\ \E i \in 1..Len(s) : s[i].ts.k = "str"
            /\ \E i \in 1..Len(s) : s[i].ts.k # "str" THEN "TypeError"
    ELSE "none"

\* ------------------------------------------------------------------------
\* is_search_active(desired_language, attempt_string), lines 1779-1875.
\* cfg is settings.general, t is datetime.now().
\* ------------------------------------------------------------------------
GateDecision_mut_strict(initial, latest, delay, delta, t) ==
    IF initial + delay > t THEN TRUE
    ELSE latest + delta < t

GateDecision_mut_nodelay(initial, latest, delay, delta, t) ==
    latest + delta <= t

GateDecision_mut_delay_only(initial, latest, delay, delta, t) ==
    initial + delay > t

\* lines 1856-1872
GateDecision(initial, latest, delay, delta, t) ==
    IF initial + delay > t THEN TRUE
    ELSE latest + delta <= t

AdaptiveEnabled_mut_always(cfg) == TRUE

\* line 1793
AdaptiveEnabled(cfg) == cfg.adaptive_searching

is_search_active(desired_language, attempt_string, cfg, t) ==
    IF ~AdaptiveEnabled(cfg) THEN Ret(TRUE)
    ELSE IF attempt_string.kind = "syntax" THEN Raise("SyntaxError", TRUE)
    ELSE IF attempt_string.kind = "nonlist" THEN Ret(TRUE)
    ELSE LET attempts == attempt_string.items IN
    IF Len(attempts) = 0 THEN Ret(TRUE)
    ELSE IF SubscriptZeroExc(attempts) # "none" THEN Raise(SubscriptZeroExc(attempts), TRUE)
    ELSE LET matching == SelectSeq2(attempts, desired_language, TRUE) IN
    IF SortKeyExc(matching) # "none" THEN Raise(SortKeyExc(matching), TRUE)
    ELSE LET matching_attempts == SortByTs(matching) IN
    IF Len(matching_attempts) = 0 THEN Ret(TRUE)
    ELSE LET initial_search_attempt == matching_attempts[1]
             latest_search_attempt == matching_attempts[Len(matching_attempts)]
         IN
    IF initial_search_attempt.ts.k \in {"str", "none"} THEN Raise("TypeError", TRUE)
    ELSE IF initial_search_attempt.ts.k = "inf" \/ latest_search_attempt.ts.k = "inf"
         THEN Ret(TRUE)
    ELSE LET delay == ParseWindow(cfg.adaptive_searching_delay) IN
    IF ~delay.ok THEN Ret(TRUE)
    ELSE IF delay.exc # "none" THEN Raise(delay.exc, TRUE)
    ELSE LET delta == ParseWindow(cfg.adaptive_searching_delta) IN
    IF ~delta.ok THEN Ret(TRUE)
    ELSE IF delta.exc # "none" THEN Raise(delta.exc, TRUE)
    ELSE Ret(GateDecision(initial_search_attempt.ts.v, latest_search_attempt.ts.v,
                          delay.days, delta.days, t))

\* ------------------------------------------------------------------------
\* updateFailedAttempts(desired_language, attempt_string), lines 1878-1918
\* ------------------------------------------------------------------------
KeepInitial_mut_latest(matching_attempts) ==
    IF Len(matching_attempts) > 0 THEN <<matching_attempts[Len(matching_attempts)]>> ELSE <<>>

KeepInitial_mut_all(matching_attempts) == matching_attempts

\* lines 1909-1910
KeepInitial(matching_attempts) ==
    IF Len(matching_attempts) > 0 THEN <<matching_attempts[1]>> ELSE <<>>

\* line 1918: str(updated_attempts), as ast.literal_eval reads the text back.
\* str() writes the float inf as `inf`, which is no literal: ValueError.
str_updated_attempts(updated_attempts) ==
    IF \E i \in 1..Len(updated_attempts) : updated_attempts[i].ts.k = "inf" THEN NonList
    ELSE List(updated_attempts)

\* lines 1902-1915: the list built from attempts whose keys sort without error
updated_attempts(desired_language, attempts, t) ==
    LET matching_attempts == SortByTs(SelectSeq2(attempts, desired_language, TRUE))
        filtered_attempts == SortByTs(SelectSeq2(attempts, desired_language, FALSE))
                               \o KeepInitial(matching_attempts)
                               \o <<Pair(desired_language, Num(t))>>
    IN  SortByLang(filtered_attempts)

updateFailedAttempts(desired_language, attempt_string, t) ==
    IF attempt_string.kind = "syntax" THEN Raise("SyntaxError", attempt_string)
    ELSE LET attempts == IF attempt_string.kind = "nonlist" THEN <<>>
                         ELSE attempt_string.items IN
    IF SubscriptZeroExc(attempts) # "none"
    THEN Raise(SubscriptZeroExc(attempts), attempt_string)
    ELSE LET matching == SelectSeq2(attempts, desired_language, TRUE)
             filtered == SelectSeq2(attempts, desired_language, FALSE) IN
    IF SortKeyExc(matching) # "none" THEN Raise(SortKeyExc(matching), attempt_string)
    ELSE IF SortKeyExc(filtered) # "none" THEN Raise(SortKeyExc(filtered), attempt_string)
    ELSE Ret(str_updated_attempts(updated_attempts(desired_language, attempts, t)))

\* ------------------------------------------------------------------------
\* The provider pool cache, lines 91-158
\* ------------------------------------------------------------------------
MediaTypes == {"movie", "series"}

\* profile_id None (the key is built with `profile_id or ""`)
NoProfile == 0
ProfileIds == {NoProfile, 1}
ProviderNames == {"opensubtitles", "subscene"}

\* f'{media_type}_{profile_id or ""}'
PoolKey(media_type, profile_id) == <<media_type, profile_id>>
Keys == MediaTypes \X ProfileIds

get_providers == config.providers
get_providers_auth == config.auth
get_blacklist(media_type) == <<media_type, config.blacklist>>

\* lines 1770-1776: None without a profile
get_ban_list(profile_id) == IF profile_id = NoProfile THEN 0 ELSE config.ban

\* lines 192-198: the providers whose only_foreign flag the search calls
\* store, in the order of the stores
FlagProviders == <<"podnapisi", "subscene", "opensubtitles">>

\* pool.provider_configs[provider]['only_foreign'] of the three, all v
OnlyForeignFlags(v) == [n \in 1..Len(FlagProviders) |-> v]

\* a key with no pool in _pools. The identity of a pool object is its key and
\* id, the number of pool objects created for that key so far.
NoPool == [id |-> 0, providers |-> {}, provider_configs |-> 0,
           blacklist |-> <<"", 0>>, ban_list |-> 0,
           only_foreign |-> OnlyForeignFlags(FALSE), also_foreign |-> FALSE]

\* lines 91-100: a new pool object, with identity nid
_init_pool(nid, media_type, profile_id, providers) ==
    [id |-> nid,
     providers |-> IF providers # {} THEN providers ELSE get_providers,
     provider_configs |-> get_providers_auth,
     blacklist |-> get_blacklist(media_type),
     ban_list |-> get_ban_list(profile_id),
     only_foreign |-> OnlyForeignFlags(FALSE),
     also_foreign |-> FALSE]

\* pool.update(providers, provider_configs, blacklist, ban_list): the pool
\* object keeps its identity and takes the four values. only_foreign and
\* also_foreign are the flags the search calls write into
\* pool.provider_configs[provider]; a provider reads an absent flag as False.
PoolUpdate(pool, providers, provider_configs, blacklist, ban_list) ==
    [pool EXCEPT !.providers = providers, !.provider_configs = provider_configs,
                 !.blacklist = blacklist, !.ban_list = ban_list]

NotInPools_mut_always(P, pool_key) == TRUE

\* line 120: pool_key not in _pools
NotInPools(P, pool_key) == P[pool_key].id = 0

\* lines 115-133, on the cache P
_update_pool(P, media_type, profile_id) ==
    LET pool_key == PoolKey(media_type, profile_id)
        init == NotInPools(P, pool_key)
        P1 == IF init
              THEN [P EXCEPT ![pool_key] =
                        _init_pool(P[pool_key].id + 1, media_type, profile_id, {})]
              ELSE P
        pool == P1[pool_key]
        new == PoolUpdate(pool, get_providers, get_providers_auth,
                          get_blacklist(media_type), get_ban_list(profile_id))
    IN  [pools |-> [P1 EXCEPT ![pool_key] = new],
         ret |-> new # pool]

\* one pool operation of a call: the pool it acts on and that pool's providers
Ev(e, key, pool) == [e |-> e, key |-> key, pool |-> pool.id, providers |-> pool.providers]

\* lines 106-112
_get_pool(P, media_type, profile_id) ==
    LET pool_key == PoolKey(media_type, profile_id)
    IN  IF P[pool_key].id # 0
        THEN [pools |-> P, pool |-> P[pool_key], events |-> <<>>]
        ELSE LET u == _update_pool(P, media_type, profile_id)
             IN  [pools |-> u.pools, pool |-> u.pools[pool_key],
                  events |-> <<Ev("update_pool", pool_key, u.pools[pool_key])>>]

\* position of a parameter in getfullargspec(f).args, lines 164, 379, 542
ArgIndex(f, name) ==
    CASE f = "generate_subtitles" /\ name = "media_type" -> 5
      [] f = "generate_subtitles" /\ name = "profile_id" -> 8
      [] f = "manual_search" /\ name = "profile_id" -> 1
      [] f = "manual_search" /\ name = "media_type" -> 6
      [] f = "manual_download_subtitle" /\ name = "media_type" -> 10
      [] f = "manual_download_subtitle" /\ name = "profile_id" -> 11

Arity(f) ==
    CASE f = "generate_subtitles" -> 9
      [] f = "manual_search" -> 7
      [] f = "manual_download_subtitle" -> 12

SeenProfile_mut_positional_only(f, npos, profile_id) == profile_id

\* lines 146-149: the profile_id the wrapper finds among the positional arguments
SeenProfile(f, npos, profile_id) ==
    IF ArgIndex(f, "profile_id") < npos THEN profile_id ELSE NoProfile

\* lines 140-156, up to the call of f: npos arguments are passed by position,
\* the others by keyword
decorated(P, f, npos, media_type, profile_id) ==
    IF ArgIndex(f, "media_type") >= npos
    THEN [exc |-> "IndexError", pools |-> P, events |-> <<>>]
    ELSE LET seen == SeenProfile(f, npos, profile_id)
             u == _update_pool(P, media_type, seen)
         IN  [exc |-> "none", pools |-> u.pools,
              events |-> <<Ev("update_pool", PoolKey(media_type, seen),
                              u.pools[PoolKey(media_type, seen)])>>]

\* forced_minimum_score=None, line 165, and an unset minimum score setting
NoScore == -1

\* score.py: the highest score of the series and movie handlers
MaxScore(media_type) == IF media_type = "series" THEN 360 ELSE 120

\* the percents of 0..100 at which the product max_score * (min_percent /
\* 100), computed in doubles, falls just below the whole number it equals
\* exactly: 360 * (35 / 100) = 125.99999999999999 and 360 * (70 / 100) =
\* 251.99999999999997; no percent does with 120
RoundsBelow(max_score) == IF max_score = 360 THEN {35, 70} ELSE {}

\* lines 1761-1767, first component of handler.get_scores(min_score_):
\* max_score * (min_percent / 100), a double, as int() truncates it at line
\* 239. min_movie, min_ep: the settings, NoScore if unset
_get_scores(media_type, min_movie, min_ep) ==
    LET max_score == MaxScore(media_type)
        movie == IF min_movie # NoScore THEN min_movie ELSE (60 * 100) \div max_score
        ep == IF min_ep # NoScore THEN min_ep ELSE (240 * 100) \div max_score
        min_score_ == IF media_type = "series" THEN ep ELSE movie
        exact == (max_score * min_score_) \div 100
    IN  IF min_score_ \in RoundsBelow(max_score) THEN exact - 1 ELSE exact

UpgradeFloor_mut_always(forced_minimum_score) == forced_minimum_score # NoScore

\* line 236: if forced_minimum_score
UpgradeFloor(forced_minimum_score) ==
    forced_minimum_score # NoScore /\ forced_minimum_score # 0

\* lines 233-239: the min_score download_best_subtitles is called with
MinScore(media_type, min_movie, min_ep, forced_minimum_score) ==
    IF UpgradeFloor(forced_minimum_score)
    THEN forced_minimum_score + 1
    ELSE _get_scores(media_type, min_movie, min_ep)

\* the languages table read by get_languages: (code2, code3) rows of the
\* standard conversion table
StandardTable == { <<"en", "eng">>, <<"fr", "fra">>, <<"pt", "por">>, <<"hi", "hin">> }

\* the custom languages of custom_lang, regional variants that are not in the
\* standard table: Brazilian Portuguese has the codes pb / pob of its own
\* and is, as a language object, Portuguese (por) of the country BR
CustomLanguages ==
    { [alpha2 |-> "pb", alpha3 |-> "pob", official_alpha3 |-> "por", country |-> "BR"] }

\* the rows the two conversions look a code up in: those of the custom
\* languages and of the standard table
LanguageRows(custom) ==
    IF custom THEN { <<c.alpha2, c.alpha3>> : c \in CustomLanguages } ELSE StandardTable

\* alpha3_from_alpha2: a custom language's code comes before the standard table
alpha3_from_alpha2(l) ==
    LET rows == IF \E r \in LanguageRows(TRUE) : r[1] = l
                THEN LanguageRows(TRUE) ELSE LanguageRows(FALSE)
    IN  (CHOOSE r \in rows : r[1] = l)[2]

\* alpha2_from_alpha3: the look-up by the three-letter code
alpha2_from_alpha3(c) ==
    LET rows == IF \E r \in LanguageRows(TRUE) : r[2] = c
                THEN LanguageRows(TRUE) ELSE LanguageRows(FALSE)
    IN  (CHOOSE r \in rows : r[2] = c)[1]

\* a Language object of no country: Language(alpha3) with forced and hi set
\* by Language.rebuild(lang_obj, forced=..., hi=...)
Variant(base, forced, hi) == [base |-> base, country |-> "", forced |-> forced, hi |-> hi]

\* CustomLanguage.from_value(value, attr), lines 1747 and 1754: the custom
\* languages (one or none) whose attribute is the value; attr "language"
\* compares with the language object, attr "alpha3" with a code
from_value(value, attr) ==
    IF attr = "alpha3" THEN { c \in CustomLanguages : c.alpha3 = value }
    ELSE { c \in CustomLanguages :
             c.official_alpha3 = value.base /\ c.country = value.country }

\* custom.subzero_language(), line 1758: the language object of a custom
\* language
subzero_language(custom) ==
    [Variant(custom.official_alpha3, FALSE, FALSE) EXCEPT !.country = custom.country]

\* lines 1753-1758
_get_lang_obj(alpha3) ==
    LET sub == from_value(alpha3, "alpha3")
    IN  IF sub = {} THEN Variant(alpha3, FALSE, FALSE)
        ELSE subzero_language(CHOOSE c \in sub : TRUE)

\* lines 183-208: the language object built from one (code, hi, forced)
\* triple
lang_obj(l) ==
    [_get_lang_obj(alpha3_from_alpha2(l[1])) EXCEPT !.forced = l[3] = "True",
                                                    !.hi = l[2] = "True"]

_get_download_code3_mut_official(language) == language.base

\* lines 1746-1750: the three-letter code of a saved subtitle's language
_get_download_code3(language) ==
    LET custom == from_value(language, "language")
    IN  IF custom = {} THEN language.base
        ELSE (CHOOSE c \in custom : TRUE).alpha3

\* lines 275-290, 366-367: the tuple yielded for a saved subtitle of this
\* language; of its nine fields, [2] (downloaded_language_code2), [5]
\* (subtitle.language.forced) and [8] (subtitle.language.hi)
DownloadResult(language) ==
    [code2 |-> alpha2_from_alpha3(_get_download_code3(language)),
     forced |-> language.forced, hi |-> language.hi]

\* lines 880-886 (973-979, 1062-1068, 1127-1133, 1212-1218): the language
\* code a batch caller writes to history for a yielded tuple
language_code(result) ==
    IF result.hi THEN Token(result.code2, "hi")
    ELSE IF result.forced THEN Token(result.code2, "forced")
    ELSE Token(result.code2, "")

AutoVariants_mut_hi(l) == { lang_obj(l), [lang_obj(l) EXCEPT !.hi = TRUE] }

\* lines 183-210: the language objects one (code, hi, forced) triple adds
AutoVariants(l) == { lang_obj(l) }

\* lines 174-210: language_set of generate_subtitles
LanguageSet(languages) ==
    UNION { AutoVariants(languages[i]) : i \in 1..Len(languages) }

\* lines 190-198: each language of the loop writes only_foreign of the three
\* providers; the last one stays
OnlyForeign(languages) == OnlyForeignFlags(languages[Len(languages)][3] = "True")

\* the only_foreign / also_foreign flags of a pool
Flags(pool) == [only_foreign |-> pool.only_foreign, also_foreign |-> pool.also_foreign]

\* what the environment of a call does: the settings' minimum scores, whether
\* the provider layer raises, whether save_subtitles raises
Env(minimum_score_movie, minimum_score, provider_raises, save_raises) ==
    [minimum_score_movie |-> minimum_score_movie, minimum_score |-> minimum_score,
     provider_raises |-> provider_raises, save_raises |-> save_raises]

Env0 == Env(NoScore, NoScore, FALSE, FALSE)

\* How a call ended and what it did to the pools. language_set, min_score:
\* what the provider query was given; saved: what save_subtitles wrote
Outcome(d, events, outcome, results) ==
    [pools |-> d.pools, events |-> events,
     outcome |-> outcome, results |-> results,
     language_set |-> {}, min_score |-> NoScore, saved |-> {}]

\* the result of a helper that is no search call
Plain(events, outcome) ==
    [events |-> events, outcome |-> outcome, results |-> <<>>,
     language_set |-> {}, min_score |-> NoScore, saved |-> {}]

\* the outcomes that are an exception leaving the function
Raised == {"IndexError", "TypeError", "ProviderError"}

SaveGuard_mut_none(save_raises, found) == found

\* lines 258-274: what is saved, and so yielded, unless save_subtitles raises
SaveGuard(save_raises, found) == IF save_raises THEN {} ELSE found

\* lines 174-210, 275-367: one tuple is yielded per saved subtitle, and one
\* subtitle is downloaded per language object of language_set, a set: a
\* triple given twice counts once. The order is that of save_subtitles'
\* return, taken here as the order of the first occurrences in languages.
Yielded(languages, saved) ==
    LET first == { i \in 1..Len(languages) :
                     /\ languages[i] \in saved
                     /\ \A j \in 1..(i - 1) : lang_obj(languages[j]) # lang_obj(languages[i]) }
        nth(n) == CHOOSE i \in first : Cardinality({ j \in first : j < i }) = n - 1
    IN  [n \in 1..Cardinality(first) |-> DownloadResult(lang_obj(languages[nth(n)]))]

\* lines 181-375: generate_subtitles from its loop over the languages on; d is
\* the call as the wrapper let it through, g0 what _get_pool returned at line 180
generate_subtitles_with_pool(d, g0, languages, media_type, profile_id, video_ok, found, forced_minimum_score, env) ==
    LET pool_key == PoolKey(media_type, profile_id)
        pool == [g0.pool EXCEPT !.only_foreign = OnlyForeign(languages)]
        g == [g0 EXCEPT !.pool = pool, !.pools[pool_key] = pool]
        providers == pool.providers
        language_set == LanguageSet(languages)
        min_score == MinScore(media_type, env.minimum_score_movie,
                              env.minimum_score, forced_minimum_score)
        ev == d.events \o g.events \o <<Ev("get_video", pool_key, pool)>>
        query == <<Ev("download_best_subtitles", pool_key, pool)>>
        save == IF found = {} THEN <<>>
                ELSE <<Ev("save_subtitles", pool_key, pool)>>
        saved == SaveGuard(env.save_raises, found)
    IN  IF ~video_ok THEN Outcome(g, ev, "no_video", <<>>)
        ELSE IF providers = {} THEN Outcome(g, ev, "no_providers", <<>>)
        ELSE IF env.provider_raises
        THEN [Outcome(g, ev \o query, "ProviderError", <<>>)
                 EXCEPT !.language_set = language_set, !.min_score = min_score]
        ELSE [Outcome(g, ev \o query \o save, "searched",
                      Yielded(languages, saved))
                 EXCEPT !.language_set = language_set, !.min_score = min_score,
                        !.saved = saved]

\* lines 163-375: the decorated generate_subtitles. languages: (code, hi,
\* forced) triples; video_ok: get_video returned a video; found: the
\* languages download_best_subtitles returned a subtitle of the requested
\* variant for; env: see Env. results: the tuples yielded
generate_subtitles(P, npos, languages, media_type, profile_id, video_ok, found, forced_minimum_score, env) ==
    LET d == decorated(P, "generate_subtitles", npos, media_type, profile_id)
    IN  IF d.exc # "none" THEN Outcome(d, d.events, d.exc, <<>>)
        ELSE IF languages = <<>> THEN Outcome(d, d.events, "no_languages", <<>>)
        ELSE generate_subtitles_with_pool(d, _get_pool(d.pools, media_type, profile_id),
                                          languages, media_type, profile_id, video_ok,
                                          found, forced_minimum_score, env)

\* the temporary pool manual_search builds for subscene, line 442
SubscenePool(profile_id) == _init_pool(1, "movie", profile_id, {"subscene"})

\* lines 391-410: the language object of one profile item
ItemVariant(item) ==
    [_get_lang_obj(alpha3_from_alpha2(item.language))
        EXCEPT !.forced = item.forced = "True", !.hi = item.hi = "True"]

\* lines 391-410: initial_language_set
InitialLanguageSet(language_items) ==
    { ItemVariant(language_items[i]) : i \in 1..Len(language_items) }

HiCounterparts_mut_all(language_set) ==
    { [v EXCEPT !.hi = ~v.hi] : v \in language_set }

\* lines 413-421: the HI-toggled counterpart of every non-forced language
HiCounterparts(language_set) ==
    { [v EXCEPT !.hi = ~v.hi] : v \in { w \in language_set : ~w.forced } }

\* lines 412-421: language_set
ExpandHi(language_set) == language_set \cup HiCounterparts(language_set)

\* lines 401-405: a forced item sets also_foreign, nothing clears it
AlsoForeign(pool, language_items) ==
    \/ pool.also_foreign
    \/ \E i \in 1..Len(language_items) : language_items[i].forced = "True"

\* the matches that tell the episode
EpisodeMatches == {"series", "season", "episode"}

\* a listed subtitle: its score, its score without hash, whether get_matches
\* raises AttributeError on it (lines 464-467), whether its provider's hashes
\* can be verified, and the matches it declares
Listed(orig_score, score_without_hash, skip, hash_verifiable, matches) ==
    [orig_score |-> orig_score, score_without_hash |-> score_without_hash, skip |-> skip,
     hash_verifiable |-> hash_verifiable, matches |-> matches]

\* a subtitle whose matches tell the episode
Candidate(orig_score, score_without_hash, skip) ==
    Listed(orig_score, score_without_hash, skip, TRUE, EpisodeMatches)

\* lines 471-473
CanVerifySeries(s) == ~(~s.hash_verifiable /\ "hash" \in s.matches)

\* lines 470-477: skip wrong season/episodes
SkipsWrongEpisode(media_type, s) ==
    /\ media_type = "series"
    /\ CanVerifySeries(s)
    /\ ~(EpisodeMatches \subseteq s.matches)

\* line 531: the key (x['orig_score'], x['score_without_hash']), compared as
\* tuples
KeyLess(a, b) ==
    \/ a.orig_score < b.orig_score
    \/ a.orig_score = b.orig_score /\ a.score_without_hash < b.score_without_hash

SortsBefore_mut_ascending(a, b) == KeyLess(a, b)

\* sorted(..., reverse=True): a goes before b if its key is greater
SortsBefore(a, b) == KeyLess(b, a)

\* where x goes into the sorted s: before the first entry it sorts before
RECURSIVE FirstAfter(_, _, _)
FirstAfter(s, x, i) ==
    IF i > Len(s) THEN i
    ELSE IF SortsBefore(x, s[i]) THEN i
    ELSE FirstAfter(s, x, i + 1)

\* lines 531-532: sorted(subtitles_list, key=..., reverse=True), which keeps the
\* order of entries with equal keys
RECURSIVE SortedDesc(_)
SortedDesc(s) ==
    IF s = <<>> THEN <<>>
    ELSE LET front == SortedDesc(SubSeq(s, 1, Len(s) - 1))
             x == s[Len(s)]
         IN  InsertAt(front, x, FirstAfter(front, x, 1))

\* lines 461-532: the entries built from the listed subtitles, sorted
FinalSubtitles(media_type, candidates) ==
    SortedDesc(SelectSeq(candidates,
                         LAMBDA c : ~c.skip /\ ~SkipsWrongEpisode(media_type, c)))

\* lines 378-538. language_items: the profile's items; providers: the caller's
\* provider list; candidates: what the providers list; env: see Env
manual_search(P, npos, profile_id, providers, media_type, language_items, video_ok, candidates, env) ==
    LET d == decorated(P, "manual_search", npos, media_type, profile_id)
    IN  IF d.exc # "none" THEN Outcome(d, d.events, d.exc, <<>>)
        ELSE IF profile_id = NoProfile THEN Outcome(d, d.events, "TypeError", <<>>)
        ELSE LET pool_key == PoolKey(media_type, profile_id)
                 g0 == _get_pool(d.pools, media_type, profile_id)
                 pool == [g0.pool EXCEPT !.also_foreign = AlsoForeign(g0.pool, language_items)]
                 g == [g0 EXCEPT !.pool = pool, !.pools[pool_key] = pool]
                 ev == d.events \o g.events
                 language_set == ExpandHi(InitialLanguageSet(language_items))
                 forced == \E v \in language_set : v.forced
                 query == <<Ev("list_all_subtitles", pool_key, pool)>>
                 listed == [Outcome(g,
                              ev \o query
                                 \o (IF "subscene" \in providers /\ forced
                                     THEN <<Ev("list_all_subtitles", <<"s_pool", profile_id>>,
                                               SubscenePool(profile_id))>>
                                     ELSE <<>>),
                              "listed", FinalSubtitles(media_type, candidates))
                               EXCEPT !.language_set = language_set]
             IN  IF providers = {} THEN Outcome(g, ev, "no_providers", <<>>)
                 ELSE IF ~video_ok THEN Outcome(g, ev, "no_video", <<>>)
                 ELSE IF env.provider_raises
                 THEN [Outcome(g, ev \o query, "list_failed", <<>>)
                          EXCEPT !.language_set = language_set]
                 ELSE listed

\* lines 564-689, from the return of get_video on. d: the pools and the
\* events the wrapper left; provider: the name of the provider of the chosen
\* subtitle; valid: subtitle.is_valid() after the download. _get_pool, line
\* 570, reads the configuration if the key of the call has no pool yet
manual_download_subtitle_returns(d, provider, media_type, profile_id, video_ok, valid, env) ==
    IF ~video_ok THEN Outcome(d, d.events, "no_video", <<>>)
    ELSE IF provider = "" THEN Outcome(d, d.events, "no_providers", <<>>)
    ELSE LET g == _get_pool(d.pools, media_type, profile_id)
             ev == d.events \o g.events
                      \o <<Ev("download_subtitles",
                              PoolKey(media_type, profile_id), g.pool)>>
         IN  IF env.provider_raises THEN Outcome(g, ev, "download_failed", <<>>)
             ELSE IF ~valid THEN Outcome(g, ev, "invalid", <<>>)
             ELSE IF env.save_raises THEN Outcome(g, ev, "save_failed", <<>>)
             ELSE [Outcome(g, ev, "downloaded", <<"subtitle">>)
                      EXCEPT !.saved = {"subtitle"}]

\* lines 541-689, with no change of the configuration while get_video runs
manual_download_subtitle(P, npos, provider, media_type, profile_id, video_ok, valid, env) ==
    LET d == decorated(P, "manual_download_subtitle", npos, media_type, profile_id)
    IN  IF d.exc # "none" THEN Outcome(d, d.events, d.exc, <<>>)
        ELSE manual_download_subtitle_returns(d, provider, media_type, profile_id,
                                              video_ok, valid, env)

\* lines 692-806. valid: sub.is_valid(), which only decides sub.mods (lines
\* 720-722); save_raises: save_subtitles raises, which leaves saved_subtitles
\* empty
manual_upload_subtitle(valid, save_raises) ==
    LET mods == IF valid THEN "subzero_mods" ELSE "None"
    IN  IF save_raises THEN Plain(<<>>, "save_failed")
        ELSE [Plain(<<>>, "uploaded")
                 EXCEPT !.results = <<"message">>,
                        !.saved = {[subtitle |-> "subtitle", mods |-> mods]}]

\* the video object get_video builds
Video == "video"
NoVideo == "None"

\* lines 52-87: parse_video and the refiners run inside try; an exception is
\* logged and the function ends without a return value
get_video_mut_ignore(build_raises) == Video

get_video(build_raises) == IF build_raises THEN NoVideo ELSE Video

\* ------------------------------------------------------------------------
\* Configurations and calls drawn as inputs
\* ------------------------------------------------------------------------
Config(providers, auth, blacklist, ban) ==
    [providers |-> providers, auth |-> auth, blacklist |-> blacklist, ban |-> ban]

Config0 == Config(ProviderNames, 1, 1, 1)

\* all providers throttled, other credentials, other blacklist and title filters
CfgInputs ==
    { Config0,
      Config({}, 1, 1, 1),
      Config({"opensubtitles"}, 2, 2, 2) }

\* the (media_type, profile_id) arguments of the calls
CallKeyInputs == { <<"movie", NoProfile>>, <<"movie", 1>>, <<"series", NoProfile>> }

NoPools == [k \in Keys |-> NoPool]

\* the call made: its arguments (inp: those of the one function), the
\* provider list and the pool's flags when it was made, and how it ended
Call(f, npos, media_type, profile_id, inp, r) ==
    [fn |-> f, npos |-> npos, media_type |-> media_type, profile_id |-> profile_id,
     inp |-> inp,
     providers |-> get_providers,
     flags_before |-> Flags(_pools[PoolKey(media_type, profile_id)]),
     events |-> r.events, outcome |-> r.outcome, results |-> r.results,
     language_set |-> r.language_set, min_score |-> r.min_score, saved |-> r.saved]

NoInputs == [none |-> TRUE]

\* a call of manual_download_subtitle that is inside get_video, line 564:
\* the wrapper has run, the body has not yet asked for its pool
Waiting(c) == c.outcome = "in_get_video"

NoCall ==
    [fn |-> "none", npos |-> 0, media_type |-> "movie", profile_id |-> NoProfile,
     inp |-> NoInputs,
     providers |-> {}, flags_before |-> Flags(NoPool),
     events |-> <<>>, outcome |-> "none", results |-> <<>>,
     language_set |-> {}, min_score |-> NoScore, saved |-> {}]

\* ------------------------------------------------------------------------
\* The wanted flow: wanted_download_subtitles and _wanted_episode, lines
\* 1084-1168 (_wanted_movie, lines 1171-1250, is the same code on TableMovies)
\* ------------------------------------------------------------------------
NoEpisode == [missing_subtitles |-> <<>>, failedAttempts |-> List(<<>>)]
NoWanted == [pc |-> "idle", media_type |-> "series", episode |-> NoEpisode, i |-> 1,
             languages |-> <<>>]

\* lines 1084-1091 (1171-1178): _wanted_episode / _wanted_movie entered with
\* the row selected by wanted_download_subtitles(_movie)
EnterWanted(media_type, missing, attempts) ==
    [pc |-> "loop", media_type |-> media_type,
     episode |-> [missing_subtitles |-> missing, failedAttempts |-> attempts],
     i |-> 1, languages |-> <<>>]

\* -1: not searched yet
NoSearches == [l \in Tokens |-> [first |-> -1, prev |-> -1, last |-> -1]]

InSeq(x, s) == \E i \in 1..Len(s) : s[i] = x

\* lines 1110-1112: (language.split(":")[0], hi_, forced_)
LanguageTriple(language) ==
    <<language.code,
      IF language.mod = "hi" THEN "True" ELSE "False",
      IF language.mod = "forced" THEN "True" ELSE "False">>

\* the token of a (code, hi, forced) triple the batch callers built
TokenOf(triple) ==
    Token(triple[1], IF triple[2] = "True" THEN "hi"
                     ELSE IF triple[3] = "True" THEN "forced" ELSE "")

\* the tokens of the triples collected for generate_subtitles
TokensOf(languages) == [k \in 1..Len(languages) |-> TokenOf(languages[k])]

ConfirmedMissing_mut_any(language, confirmed_missing_subs) == TRUE

\* lines 1095-1100 (855-862, 947-954, 1182-1187): the language is in the
\* missing_subtitles column as re-read from the database
ConfirmedMissing(language, confirmed_missing_subs) == InSeq(language, confirmed_missing_subs)

AttemptSource_mut_persisted(episode, persisted) == persisted

\* lines 1102-1105: the history the gate and the update read is the one
\* selected with the episode, before the loop
AttemptSource(episode, persisted) == episode.failedAttempts

\* store_subtitles / list_missing_subtitles: the languages now saved leave the
\* missing list
RemoveTokens(missing, found) == SelectSeq(missing, LAMBDA l : l \notin found)

\* ------------------------------------------------------------------------
\* series_download_subtitles, lines 809-899
\* ------------------------------------------------------------------------
\* n: the episodes selected; i: the episode the loop is at; searched: the
\* episodes a provider query was issued for; empty_at: the episode at which
\* get_providers() was first found empty (0: never); progress: the
\* series_search_progress indicator; log: what the last call of
\* generate_subtitles and the loop consuming it did, in order; history: the
\* language codes that loop gave to history_log; episode: the
\* missing_subtitles of the row of this turn, as selected; k: the language
\* the inner loop is at; languages: the triples collected for
\* generate_subtitles
NoBatch == [pc |-> "idle", n |-> 0, i |-> 1, searched |-> {}, empty_at |-> 0,
            progress |-> "none", log |-> <<>>, history |-> <<>>,
            episode |-> <<>>, k |-> 1, languages |-> <<>>]

\* one entry of a log: the operation e, and the yielded tuple k it is about
\* (0: the call as a whole)
LogEntry(e, k) == [e |-> e, k |-> k]

OnResult_mut_notify_first(k) ==
    <<LogEntry("send_notifications", k), LogEntry("yield", k),
      LogEntry("store_subtitles", k), LogEntry("history_log", k)>>

\* lines 872-894: the k-th tuple is yielded (line 366) and the loop body
\* runs on it before the generator resumes
OnResult(k) ==
    <<LogEntry("yield", k), LogEntry("store_subtitles", k),
      LogEntry("history_log", k), LogEntry("send_notifications", k)>>

RECURSIVE OnResults(_)
OnResults(n) == IF n = 0 THEN <<>> ELSE OnResults(n - 1) \o OnResult(n)

\* lines 872-894: the operations of one call r of generate_subtitles
\* consumed by the loop, in the order they happen
RunLog(r) ==
    [i \in 1..Len(r.events) |-> LogEntry(r.events[i].e, 0)] \o OnResults(Len(r.results))

\* lines 878-893: the language codes given to history_log
HistoryCodes(r) == [k \in 1..Len(r.results) |-> language_code(r.results[k])]

OnThrottled_mut_continue(b) == [b EXCEPT !.i = @ + 1, !.empty_at = b.i]

\* lines 895-899: break, then hide_progress and the end of the function
OnThrottled(b) == [b EXCEPT !.pc = "done", !.empty_at = b.i, !.progress = "hidden"]

\* ------------------------------------------------------------------------
\* The video descriptor: parse_video's guess refined from the library row and
\* from the cached ffprobe result, lines 73-84 and 1324-1458
\* ------------------------------------------------------------------------
\* a value of an attribute or a column: where it comes from (src), which
\* attribute, column or ffprobe key it is (col), and the conversion applied
Val(src, col, conv) == [src |-> src, col |-> col, conv |-> conv]
Unset == Val("unset", "", "")
Guessed(a) == Val("guess", a, "")
Null == Val("null", "", "")
Db(col) == Val("db", col, "")
Probed(k) == Val("ffprobe", k, "")

\* Python truth of a value
Truthy(v) == v.src \notin {"unset", "null"}

Conv(v, c) == [v EXCEPT !.conv = c]

\* str(None) is the text 'None'
str(v) == IF v = Null THEN Val("text", "None", "str") ELSE Conv(v, "str")

\* lines 1324-1328: guessit's reading of the stored text, or the text itself
convert_to_guessit(guessit_key, attr_from_db) ==
    IF attr_from_db.src = "text" THEN attr_from_db ELSE Conv(attr_from_db, "guessit")

VideoKinds == {"episode", "movie"}

EpisodeAttrs == {"series", "season", "episode", "title", "series_tvdb_id",
                 "alternative_series", "series_imdb_id", "source", "resolution",
                 "video_codec", "audio_codec"}
MovieAttrs == {"title", "alternative_titles", "imdb_id", "source", "resolution",
               "video_codec", "audio_codec"}
Attrs(kind) == IF kind = "episode" THEN EpisodeAttrs ELSE MovieAttrs

EpisodeColumns == {"seriesTitle", "season", "episode", "episodeTitle", "tvdbId",
                   "alternateTitles", "imdbId", "format", "resolution", "video_codec",
                   "audio_codec"}
MovieColumns == {"title", "alternativeTitles", "imdbId", "format", "resolution",
                 "video_codec", "audio_codec"}
Columns(kind) == IF kind = "episode" THEN EpisodeColumns ELSE MovieColumns

\* len(data) = 0: the path is in no row
NoRow == [c \in {} |-> Null]

\* the column an attribute is refined from
ColumnOf(kind, a) ==
    CASE a = "series" -> "seriesTitle"
      [] a = "title" -> IF kind = "episode" THEN "episodeTitle" ELSE "title"
      [] a = "series_tvdb_id" -> "tvdbId"
      [] a = "alternative_series" -> "alternateTitles"
      [] a = "alternative_titles" -> "alternativeTitles"
      [] a \in {"series_imdb_id", "imdb_id"} -> "imdbId"
      [] a = "source" -> "format"
      [] OTHER -> a

refine_from_db(kind, video, data) ==
    IF data = NoRow THEN video
    ELSE IF kind = "episode"
    THEN [video EXCEPT
            !.series = Conv(data.seriesTitle, "strip_year"),
            !.season = Conv(data.season, "int"),
            !.episode = Conv(data.episode, "int"),
            !.title = data.episodeTitle,
            !.series_tvdb_id = Conv(data.tvdbId, "int"),
            !.alternative_series = Conv(data.alternateTitles, "literal_eval"),
            !.series_imdb_id = IF Truthy(data.imdbId) /\ ~Truthy(@) THEN data.imdbId ELSE @,
            !.source = IF ~Truthy(@) THEN convert_to_guessit("source", str(data.format)) ELSE @,
            !.resolution = IF ~Truthy(@) THEN str(data.resolution) ELSE @,
            !.video_codec = IF ~Truthy(@) /\ Truthy(data.video_codec)
                            THEN convert_to_guessit("video_codec", data.video_codec) ELSE @,
            !.audio_codec = IF ~Truthy(@) /\ Truthy(data.audio_codec)
                            THEN convert_to_guessit("audio_codec", data.audio_codec) ELSE @]
    ELSE [video EXCEPT
            !.title = Conv(data.title, "strip_year"),
            !.imdb_id = IF Truthy(data.imdbId) /\ ~Truthy(@) THEN data.imdbId ELSE @,
            !.alternative_titles = Conv(data.alternativeTitles, "literal_eval"),
            !.source = IF ~Truthy(@) /\ Truthy(data.format)
                       THEN convert_to_guessit("source", data.format) ELSE @,
            !.resolution = IF ~Truthy(@) /\ Truthy(data.resolution)
                           THEN data.resolution ELSE @,
            !.video_codec = IF ~Truthy(@) /\ Truthy(data.video_codec)
                            THEN convert_to_guessit("video_codec", data.video_codec) ELSE @,
            !.audio_codec = IF ~Truthy(@) /\ Truthy(data.audio_codec)
                            THEN convert_to_guessit("audio_codec", data.audio_codec) ELSE @]

\* the attributes only the guess and ffprobe give: fps, a value, and
\* audio_languages, a set of alpha3 codes
ProbeAttrs == {"fps", "audio_languages"}

\* data['ffprobe']['video'][0] / ['audio'][0]: the keys the first track
\* carries; NoTrack: 'video' / 'audio' is not in data['ffprobe']
Track(keys) == [present |-> TRUE, keys |-> keys]
NoTrack == [present |-> FALSE, keys |-> {}]

\* data['ffprobe']. languages: the alpha3 codes of the audio tracks that
\* carry a language
Probe(video, audio, languages) == [video |-> video, audio |-> audio, languages |-> languages]

\* no cached result (lines 1426-1428), or no row for the path (1416-1417)
NoProbe == Probe(NoTrack, NoTrack, {})

\* lines 1404-1458
refine_from_ffprobe(video, ffprobe) ==
    [video EXCEPT
       !.resolution = IF "resolution" \in ffprobe.video.keys /\ ~Truthy(@)
                      THEN Probed("resolution") ELSE @,
       !.video_codec = IF "codec" \in ffprobe.video.keys /\ ~Truthy(@)
                       THEN Probed("codec") ELSE @,
       !.fps = IF "frame_rate" \in ffprobe.video.keys /\ ~Truthy(@)
               THEN Probed("frame_rate") ELSE @,
       !.audio_codec = IF "codec" \in ffprobe.audio.keys /\ ~Truthy(@)
                       THEN Probed("codec") ELSE @,
       !.audio_languages = IF ffprobe.audio.present THEN @ \cup ffprobe.languages ELSE @]

NoRefined == [pc |-> "idle", kind |-> "movie", guess |-> NoRow, data |-> NoRow,
              ffprobe |-> NoProbe, video |-> NoRow]

\* ------------------------------------------------------------------------
\* The threads of the scheduler and of the API inside the pool functions
\* ------------------------------------------------------------------------
NoThreads == <<>>
NoObjects == <<>>

\* the key the threads share
RaceKey == PoolKey("series", NoProfile)

\* a thread in a call. op: the function it called; forced: the forced item of
\* the one language a generate_subtitles call asks for; ret: where the
\* _update_pool it is in returns to; pool: the pool object it got (0: none
\* yet); store: which of the three only_foreign stores it is at; queried,
\* query_flag: whether download_best_subtitles ran, and the only_foreign
\* values of the three providers it ran with
Thread(pc, op, forced, ret) ==
    [pc |-> pc, op |-> op, forced |-> forced, ret |-> ret, pool |-> 0, store |-> 1,
     queried |-> FALSE, query_flag |-> OnlyForeignFlags(FALSE)]

\* the first statement of each function (lines 108, 116, 151)
Enter(op, forced) ==
    CASE op = "_get_pool" -> Thread("get_pool", op, forced, "done")
      [] op = "_update_pool" -> Thread("update_check", op, forced, "done")
      [] OTHER -> Thread("update_check", op, forced, "get_pool")

\* a write through a reference to a pool object: seen through _pools as well
\* when the key is bound to that object
StoreObject(O, id, obj) == [O EXCEPT ![id] = obj]
StorePools(P, id, obj) == IF P[RaceKey].id = id THEN [P EXCEPT ![RaceKey] = obj] ELSE P

\* where _get_pool's caller goes on
AfterGet(th) == IF th.op = "generate_subtitles" THEN "write_flag" ELSE "done"

QueryFlag_mut_own(pool, forced) == OnlyForeignFlags(forced)

\* line 238: the providers read only_foreign from the pool's provider_configs
QueryFlag(pool, forced) == pool.only_foreign

\* ------------------------------------------------------------------------
\* movies_download_subtitles, lines 997-1081
\* ------------------------------------------------------------------------
\* movie: the missing_subtitles of the selected row; i: the language the
\* loop is at; languages: the triples collected; confirmed: per language,
\* whether the column was re-read and still held it; providers_list: the
\* last get_providers() (None before the first turn is falsy like []);
\* passed: generate_subtitles was called; progress: the
\* movie_search_progress indicator
NoMovies == [pc |-> "idle", movie |-> <<>>, i |-> 1, languages |-> <<>>, confirmed |-> <<>>,
             providers_list |-> {}, passed |-> FALSE, progress |-> "none"]

\* lines 1033-1036: the triple is appended before the column is re-read
MoviesAppend(languages, language) == Append(languages, LanguageTriple(language))

\* ------------------------------------------------------------------------
\* The jobs that show a progress indicator per item: the wanted sweeps (lines
\* 1253-1321), upgrade_subtitles (lines 1461-1691) and
\* episode_download_subtitles (lines 902-994)
\* ------------------------------------------------------------------------
Sweeps == {"wanted_search_missing_subtitles_series", "wanted_search_missing_subtitles_movies"}

Indicators == {"wanted_episodes_progress", "wanted_movies_progress",
               "upgrade_episodes_progress", "upgrade_movies_progress",
               "episode_search_progress"}

\* the indicators as the UI has them
NoProgress == [id \in Indicators |-> "none"]
show_progress(progress, id) == [progress EXCEPT ![id] = "shown"]
hide_progress(progress, id) == [progress EXCEPT ![id] = "hidden"]

\* fn: the function running; n: the episodes (items) and m: the movies it
\* selected; i: the item the loop is at; use_sonarr, use_radarr,
\* send_progress, upgrade_manual, days_to_upgrade_subs: the settings and the
\* argument it runs with; started: datetime.now() when upgrade_subtitles
\* computed its window; episodes_to_upgrade, movies_to_upgrade: the history
\* rows upgrade_subtitles selected; polled: the turn the loop is at has
\* read get_providers() and found providers; empty_at: the
\* item at which get_providers() was found empty (0: never); shown: the
\* indicators this run has shown; progress: the indicators
NoJob == [fn |-> "none", pc |-> "idle", n |-> 0, m |-> 0, i |-> 1,
          use_sonarr |-> FALSE, use_radarr |-> FALSE, send_progress |-> FALSE,
          upgrade_manual |-> FALSE, days_to_upgrade_subs |-> 0, started |-> 0,
          episodes_to_upgrade |-> <<>>, movies_to_upgrade |-> <<>>,
          polled |-> FALSE, empty_at |-> 0, shown |-> {}, progress |-> NoProgress,
          episode |-> <<>>, k |-> 1, languages |-> <<>>]

\* a job shows an indicator
Show(j, id) == [j EXCEPT !.progress = show_progress(@, id), !.shown = @ \cup {id}]
Hide(j, id) == [j EXCEPT !.progress = hide_progress(@, id)]

\* lines 1284-1286, 1315-1317: return
SweepReturn(j, id) == [j EXCEPT !.pc = "done", !.empty_at = j.i]


\* ------------------------------------------------------------------------
\* upgrade_subtitles, lines 1461-1557: the subtitles selected for an upgrade
\* ------------------------------------------------------------------------
\* A value of the score column: an integer, a text int() rejects, or NULL
IntScore(v) == [kind |-> "int", v |-> v]
TextScore == [kind |-> "text", v |-> 0]
NullScore == [kind |-> "null", v |-> 0]

\* One row of the grouped history query, lines 1476-1492: the latest
\* timestamp of the (video_path, language) group, its score, action and
\* language, and whether subtitles_path is a file on disk
HistoryRow(timestamp, score, action, exists, language) ==
    [timestamp |-> timestamp, score |-> score, action |-> action,
     exists |-> exists, language |-> language]

\* lines 1463-1464: the start of the upgrade window (time in days)
minimum_timestamp(t, days_to_upgrade_subs) == t - days_to_upgrade_subs

\* lines 1466-1469
query_actions(upgrade_manual) == IF upgrade_manual THEN {1, 2, 3, 4, 6} ELSE {1, 3}

\* lines 1472-1474 (1519-1521): the where clause. Its third condition,
\* (TableHistory.score is not None), is the Python value True and filters
\* nothing
upgradable(rows, upgrade_manual, min_ts) ==
    SelectSeq(rows, LAMBDA r : r.action \in query_actions(upgrade_manual)
                               /\ r.timestamp > min_ts)

\* lines 1501, 1548: a score below which a subtitle is not perfect
PerfectScore(media_type) == IF media_type = "series" THEN 360 ELSE 120

\* lines 1511, 1553: the score an upgrade has to be below
NearPerfectScore(media_type) == IF media_type = "series" THEN 357 ELSE 117

\* lines 1497-1500 (1544-1547): int(score) raises TypeError for None; only
\* ValueError is caught
SelectionRaises(rows, min_ts) ==
    \E i \in 1..Len(rows) : rows[i].timestamp > min_ts /\ rows[i].score.kind = "null"

\* lines 1494-1505 (1541-1551): upgradable_episodes_not_perfect
not_perfect(rows, media_type, upgrade_manual, min_ts) ==
    SelectSeq(rows, LAMBDA r :
        /\ r.timestamp > min_ts
        /\ r.score.kind = "int"
        /\ \/ r.score.v < PerfectScore(media_type)
           \/ upgrade_manual /\ r.action \in {2, 4, 6})

to_upgrade_mut_any_file(rows, media_type) ==
    SelectSeq(rows, LAMBDA r : r.score.v < NearPerfectScore(media_type))

\* lines 1507-1514 (1553-1556): episodes_to_upgrade / movies_to_upgrade
to_upgrade(rows, media_type) ==
    SelectSeq(rows, LAMBDA r : r.exists /\ r.score.v < NearPerfectScore(media_type))

\* lines 1471-1516 (1518-1557): the selection for one service
UpgradeSelection(rows, media_type, upgrade_manual, min_ts) ==
    to_upgrade(not_perfect(upgradable(rows, upgrade_manual, min_ts),
                           media_type, upgrade_manual, min_ts),
               media_type)

\* ------------------------------------------------------------------------
\* The gate functions applied to drawn inputs
\* ------------------------------------------------------------------------
Langs == {EN, FR}

Setting(a, delay, delta) ==
    [adaptive_searching |-> a, adaptive_searching_delay |-> delay,
     adaptive_searching_delta |-> delta]

\* config values: the shipped form "<N>d" / "<N>w", a longer number, a zero
\* window and texts with no d / w suffix
SettingsInputs ==
    { Setting(TRUE, <<"2", "d">>, <<"1", "d">>),
      Setting(TRUE, <<"1", "w">>, <<"3", "d">>),
      Setting(TRUE, <<"1", "2", "d">>, <<"1", "d">>),
      Setting(TRUE, <<"2", "d">>, <<"0", "d">>),
      Setting(TRUE, <<"2", "x">>, <<"1", "d">>),
      Setting(TRUE, <<"2", "d">>, <<"1", "x">>),
      Setting(FALSE, <<"2", "d">>, <<"1", "d">>) }

SeqsUpTo(S, n) == UNION { [1..k -> S] : k \in 0..n }

GoodEntries == { Pair(EN, Num(t)) : t \in {0, 2, 5} } \cup { Pair(FR, Num(t)) : t \in {1, 4} }
BadEntries == { Single(EN), EmptyEntry, ScalarEntry, Pair(EN, StrTs), Pair(EN, NoneTs),
                Pair(EN, InfTs),
                Pair(EN, Num(0)), Pair(FR, Num(2)) }

WellFormed(h) ==
    /\ h.kind = "list"
    /\ \A i \in 1..Len(h.items) : h.items[i].kind = "pair" /\ h.items[i].ts.k = "num"

HistoryInputs ==
    { List(s) : s \in SeqsUpTo(GoodEntries, MaxHist) }
      \cup { List(s) : s \in SeqsUpTo(BadEntries, MaxBad) }
      \cup { SyntaxText, NonList }

NoOp == [op |-> "none", lang |-> EN]
NoActive == Ret(TRUE)
NoUpdated == Ret(List(<<>>))

InitGate ==
    /\ now = 0
    /\ settings \in SettingsInputs
    /\ input_attempts \in HistoryInputs
    /\ last_op = NoOp
    /\ active = NoActive
    /\ updated = NoUpdated
    /\ failedAttempts = List(<<>>)
    /\ config = Config0
    /\ _pools = NoPools
    /\ call = NoCall
    /\ missing_subtitles = <<>>
    /\ wanted = NoWanted
    /\ searches = NoSearches
    /\ batch = NoBatch
    /\ refined = NoRefined
    /\ threads = NoThreads
    /\ objects = NoObjects
    /\ movies = NoMovies
    /\ job = NoJob

\* the clock advances by a day; the results of the last call are consumed
Tick ==
    /\ now < MaxNow
    /\ now' = now + 1
    /\ last_op' = NoOp
    /\ active' = NoActive
    /\ updated' = NoUpdated
    /\ UNCHANGED <<settings, input_attempts, recordVars, poolVars, wantedVars, batchVars, sideVars>>

CallIsSearchActive ==
    \E l \in Langs :
        /\ last_op' = [op |-> "is_search_active", lang |-> l]
        /\ active' = is_search_active(l, input_attempts, settings, now)
        /\ updated' = NoUpdated
        /\ UNCHANGED <<now, settings, input_attempts, recordVars, poolVars, wantedVars, batchVars, sideVars>>

CallUpdateFailedAttempts ==
    \E l \in Langs :
        /\ last_op' = [op |-> "updateFailedAttempts", lang |-> l]
        /\ updated' = updateFailedAttempts(l, input_attempts, now)
        /\ active' = NoActive
        /\ UNCHANGED <<now, settings, input_attempts, recordVars, poolVars, wantedVars, batchVars, sideVars>>

NextGate == Tick \/ CallIsSearchActive \/ CallUpdateFailedAttempts

SpecGate == InitGate /\ [][NextGate]_vars

\* ------------------------------------------------------------------------
\* updateFailedAttempts applied again and again to its own result
\* ------------------------------------------------------------------------
DefaultSettings == Setting(TRUE, <<"2", "d">>, <<"3", "d">>)

InitRecord ==
    /\ now = 0
    /\ settings = DefaultSettings
    /\ input_attempts = List(<<>>)
    /\ last_op = NoOp
    /\ active = NoActive
    /\ updated = NoUpdated
    /\ failedAttempts = List(<<>>)
    /\ config = Config0
    /\ _pools = NoPools
    /\ call = NoCall
    /\ missing_subtitles = <<>>
    /\ wanted = NoWanted
    /\ searches = NoSearches
    /\ batch = NoBatch
    /\ refined = NoRefined
    /\ threads = NoThreads
    /\ objects = NoObjects
    /\ movies = NoMovies
    /\ job = NoJob

RecordAttempt ==
    \E l \in Langs :
        /\ failedAttempts' = updateFailedAttempts(l, failedAttempts, now).val
        /\ UNCHANGED <<now, settings, gateVars, poolVars, wantedVars, batchVars, sideVars>>

NextRecord == Tick \/ RecordAttempt

SpecRecord == InitRecord /\ [][NextRecord]_vars

\* ------------------------------------------------------------------------
\* Vocabulary of the properties
\* ------------------------------------------------------------------------
SetMin(S) == CHOOSE x \in S : \A y \in S : x <= y
SetMax(S) == CHOOSE x \in S : \A y \in S : x >= y

\* the timestamps a well-formed history holds for a language
TimesOf(l, h) == { h.items[i].ts.v : i \in { j \in 1..Len(h.items) : h.items[j].lang = l } }
CountOf(l, h) == Cardinality({ j \in 1..Len(h.items) : h.items[j].lang = l })

WindowsParse(cfg) ==
    /\ ParseWindow(cfg.adaptive_searching_delay).ok
    /\ ParseWindow(cfg.adaptive_searching_delay).exc = "none"
    /\ ParseWindow(cfg.adaptive_searching_delta).ok
    /\ ParseWindow(cfg.adaptive_searching_delta).exc = "none"

\* the windows is_search_active works with
DelayWindow(cfg) == ParseWindow(cfg.adaptive_searching_delay).days
DeltaWindow(cfg) == ParseWindow(cfg.adaptive_searching_delta).days

GateCalled == last_op.op = "is_search_active"
UpdateCalled == last_op.op = "updateFailedAttempts"

\* the list updateFailedAttempts works on: a value that is no list counts as []
AsList(h) == IF h.kind = "list" THEN h ELSE List(<<>>)
Usable(h) == WellFormed(h) \/ h.kind = "nonlist"

\* C1: with adaptive searching enabled and a well-formed history holding an
\* entry for the language, is_search_active returns True exactly when
\* now < initial + delay_window or now >= latest + delta_window.
C1_GateDecides ==
    ( /\ GateCalled
      /\ settings.adaptive_searching
      /\ WindowsParse(settings)
      /\ WellFormed(input_attempts)
      /\ TimesOf(last_op.lang, input_attempts) # {} )
    => LET times == TimesOf(last_op.lang, input_attempts)
       IN  /\ active.exc = "none"
           /\ active.val = ( \/ now < SetMin(times) + DelayWindow(settings)
                             \/ now >= SetMax(times) + DeltaWindow(settings) )

C1_Witness ==
    /\ GateCalled
    /\ settings.adaptive_searching
    /\ WindowsParse(settings)
    /\ WellFormed(input_attempts)
    /\ Cardinality(TimesOf(last_op.lang, input_attempts)) >= 2
    /\ now = SetMax(TimesOf(last_op.lang, input_attempts)) + DeltaWindow(settings) - 1
    /\ active = Ret(FALSE)

\* C2: the entries updateFailedAttempts returns for the language are the
\* earliest entry of the input (if it had one) followed by one new entry
\* timestamped now, and the result is ordered by language.
C2_UpdateKeepsInitialAndNow ==
    (UpdateCalled /\ Usable(input_attempts))
    => LET l == last_op.lang
           times == TimesOf(l, AsList(input_attempts))
           out == updated.val.items
       IN  /\ updated.exc = "none"
           /\ updated.val.kind = "list"
           /\ SelectSeq2(out, l, TRUE) =
                (IF times # {} THEN <<Pair(l, Num(SetMin(times)))>> ELSE <<>>)
                    \o <<Pair(l, Num(now))>>
           /\ \A i, j \in 1..Len(out) : i < j => ~StrLess(out[j].lang, out[i].lang)

C2_Witness ==
    /\ UpdateCalled
    /\ WellFormed(input_attempts)
    /\ Cardinality(TimesOf(last_op.lang, input_attempts)) = 3
    /\ TimesOf(FR, input_attempts) = {}
    /\ Len(updated.val.items) = 2
    /\ now > SetMax(TimesOf(last_op.lang, input_attempts))

\* C3: starting from an empty history, after any number of
\* updateFailedAttempts calls the history holds at most 2 entries per language.
C3_AtMostTwoPerLanguage ==
    /\ failedAttempts.kind = "list"
    /\ \A l \in Langs : CountOf(l, failedAttempts) <= 2

C3_Witness ==
    /\ \A l \in Langs : CountOf(l, failedAttempts) = 2
    /\ \A l \in Langs : Cardinality(TimesOf(l, failedAttempts)) = 2
    /\ now \in TimesOf(EN, failedAttempts)

\* C5 as stated: with adaptive searching enabled, is_search_active evaluated at
\* the same instant on the history updateFailedAttempts just returned is False.
C5_BlockedRightAfterRecord ==
    ( /\ UpdateCalled
      /\ settings.adaptive_searching
      /\ WindowsParse(settings)
      /\ DeltaWindow(settings) > 0
      /\ Usable(input_attempts) )
    => is_search_active(last_op.lang, updated.val, settings, now) = Ret(FALSE)

\* C5 amended: on the history updateFailedAttempts just returned, at the same
\* instant, is_search_active is False exactly when the earliest attempt of the
\* language (the input's earliest, or the new one) is at least delay_window
\* old; inside the delay window it is True.
C5_BlockedOnceSparse ==
    ( /\ UpdateCalled
      /\ settings.adaptive_searching
      /\ WindowsParse(settings)
      /\ DeltaWindow(settings) > 0
      /\ Usable(input_attempts) )
    => LET l == last_op.lang
           earliest == SetMin(TimesOf(l, AsList(input_attempts)) \cup {now})
           again == is_search_active(l, updated.val, settings, now)
       IN  /\ again.exc = "none"
           /\ again.val = ~(earliest + DelayWindow(settings) <= now)

C5_Witness ==
    /\ UpdateCalled
    /\ settings.adaptive_searching
    /\ WindowsParse(settings)
    /\ DeltaWindow(settings) > 0
    /\ WellFormed(input_attempts)
    /\ TimesOf(last_op.lang, input_attempts) # {}
    /\ SetMin(TimesOf(last_op.lang, input_attempts)) + DelayWindow(settings) <= now
    /\ is_search_active(last_op.lang, updated.val, settings, now) = Ret(FALSE)

\* C6: is_search_active fails open: for every attempt_string that is not a
\* well-formed list of [language, numeric timestamp] pairs it returns True
\* and raises nothing.
C6_FailsOpen ==
    (GateCalled /\ settings.adaptive_searching /\ ~WellFormed(input_attempts))
    => active = Ret(TRUE)

\* C7: is_search_active returns True whenever adaptive searching is disabled,
\* and, when enabled, whenever the history is an empty list or holds no entry
\* for the requested language.
C7_DueWhenDisabledOrNoHistory ==
    ( /\ GateCalled
      /\ \/ ~settings.adaptive_searching
         \/ /\ WellFormed(input_attempts)
            /\ TimesOf(last_op.lang, input_attempts) = {} )
    => active = Ret(TRUE)

C7_Witness ==
    /\ GateCalled
    /\ ~settings.adaptive_searching
    /\ WellFormed(input_attempts)
    /\ TimesOf(last_op.lang, input_attempts) # {}
    /\ now >= SetMin(TimesOf(last_op.lang, input_attempts)) + DelayWindow(settings)
    /\ now < SetMax(TimesOf(last_op.lang, input_attempts)) + DeltaWindow(settings)
    /\ active = Ret(TRUE)

\* ------------------------------------------------------------------------
\* The pool cache under configuration edits and orchestrator calls, one
\* caller
\* ------------------------------------------------------------------------
En == <<"en", "False", "False">>
EnForced == <<"en", "False", "True">>

LanguagesInputs == { <<>>, <<En>> }

Item(language, forced, hi) == [language |-> language, forced |-> forced, hi |-> hi]
LanguageItemsInputs == { <<Item("en", "False", "False")>>, <<Item("en", "True", "False")>> }

InitPool ==
    /\ now = 0
    /\ settings = DefaultSettings
    /\ input_attempts = List(<<>>)
    /\ last_op = NoOp
    /\ active = NoActive
    /\ updated = NoUpdated
    /\ failedAttempts = List(<<>>)
    /\ config = Config0
    /\ _pools = NoPools
    /\ call = NoCall
    /\ missing_subtitles = <<>>
    /\ wanted = NoWanted
    /\ searches = NoSearches
    /\ batch = NoBatch
    /\ refined = NoRefined
    /\ threads = NoThreads
    /\ objects = NoObjects
    /\ movies = NoMovies
    /\ job = NoJob

\* the settings are edited, or providers get throttled or come back
ChangeConfig ==
    /\ config' \in CfgInputs \ {config}
    /\ call' = IF Waiting(call) THEN call ELSE NoCall
    /\ UNCHANGED <<now, settings, gateVars, recordVars, wantedVars, _pools, batchVars, sideVars>>

CallUpdatePool ==
    \E mp \in CallKeyInputs :
        LET media_type == mp[1]
            profile_id == mp[2]
            u == _update_pool(_pools, media_type, profile_id)
            k == PoolKey(media_type, profile_id)
        IN  /\ ~Waiting(call)
            /\ _pools' = u.pools
            /\ call' = Call("_update_pool", 2, media_type, profile_id, NoInputs,
                            Plain(<<Ev("update_pool", k, u.pools[k])>>,
                                  IF u.ret THEN "True" ELSE "False"))
            /\ UNCHANGED <<now, settings, gateVars, recordVars, wantedVars, config, batchVars, sideVars>>

CallGetPool ==
    \E mp \in CallKeyInputs :
        LET media_type == mp[1]
            profile_id == mp[2]
            g == _get_pool(_pools, media_type, profile_id)
        IN  /\ ~Waiting(call)
            /\ _pools' = g.pools
            /\ call' = Call("_get_pool", 2, media_type, profile_id, NoInputs,
                            Plain(g.events, "pool"))
            /\ UNCHANGED <<now, settings, gateVars, recordVars, wantedVars, config, batchVars, sideVars>>

GenerateSubtitles ==
    \E npos \in {5, 6, 9}, languages \in LanguagesInputs, mp \in CallKeyInputs,
       video_ok \in BOOLEAN :
        LET media_type == mp[1]
            profile_id == mp[2]
            found == { languages[i] : i \in 1..Len(languages) }
            r == generate_subtitles(_pools, npos, languages, media_type,
                                    profile_id, video_ok, found, NoScore, Env0)
        IN  /\ ~Waiting(call)
            /\ _pools' = r.pools
            /\ call' = Call("generate_subtitles", npos, media_type, profile_id,
                            NoInputs, r)
            /\ UNCHANGED <<now, settings, gateVars, recordVars, wantedVars, config, batchVars, sideVars>>

\* the caller passes get_providers() as providers
ManualSearch ==
    \E npos \in {1, 6, 7}, mp \in CallKeyInputs,
       language_items \in LanguageItemsInputs, video_ok \in BOOLEAN :
        LET media_type == mp[1]
            profile_id == mp[2]
            r == manual_search(_pools, npos, profile_id, get_providers,
                               media_type, language_items, video_ok, <<>>, Env0)
        IN  /\ ~Waiting(call)
            /\ _pools' = r.pools
            /\ call' = Call("manual_search", npos, media_type, profile_id, NoInputs, r)
            /\ UNCHANGED <<now, settings, gateVars, recordVars, wantedVars, config, batchVars, sideVars>>

\* lines 140-156 and 541-564: the wrapper refreshes the pool of the key it
\* sees, the body reads its settings and calls get_video, which reads the
\* file and the refiners' databases
ManualDownloadSubtitle ==
    \E npos \in {10, 11, 12}, provider \in {"", "opensubtitles"},
       mp \in CallKeyInputs :
        LET media_type == mp[1]
            profile_id == mp[2]
            d == decorated(_pools, "manual_download_subtitle", npos, media_type,
                           profile_id)
            r == Outcome(d, d.events,
                         IF d.exc # "none" THEN d.exc ELSE "in_get_video", <<>>)
        IN  /\ ~Waiting(call)
            /\ _pools' = r.pools
            /\ call' = Call("manual_download_subtitle", npos, media_type, profile_id,
                            [provider |-> provider], r)
            /\ UNCHANGED <<now, settings, gateVars, recordVars, wantedVars, config, batchVars, sideVars>>

\* lines 564-689: get_video returns and the body goes on, on the pools and
\* the configuration as they are now
ManualDownloadSubtitleReturns ==
    /\ Waiting(call)
    /\ \E video_ok \in BOOLEAN :
        LET d == [exc |-> "none", pools |-> _pools, events |-> call.events]
            r == manual_download_subtitle_returns(d, call.inp.provider,
                     call.media_type, call.profile_id, video_ok, TRUE, Env0)
        IN  /\ _pools' = r.pools
            /\ call' = [Call("manual_download_subtitle", call.npos, call.media_type,
                             call.profile_id, call.inp, r)
                           EXCEPT !.providers = call.providers,
                                  !.flags_before = call.flags_before]
    /\ UNCHANGED <<now, settings, gateVars, recordVars, wantedVars, config, batchVars, sideVars>>

NextPool ==
    \/ ChangeConfig
    \/ CallUpdatePool
    \/ CallGetPool
    \/ GenerateSubtitles
    \/ ManualSearch
    \/ ManualDownloadSubtitle
    \/ ManualDownloadSubtitleReturns

SpecPool == InitPool /\ [][NextPool]_vars

Orchestrators == {"generate_subtitles", "manual_search", "manual_download_subtitle"}
Queries == {"download_best_subtitles", "list_all_subtitles", "download_subtitles"}

\* the provider queries and downloads the last call made
QueriesOf(c) == { i \in 1..Len(c.events) : c.events[i].e \in Queries }

\* the four values a pool of this key takes from the current configuration
Fresh(pool, key) ==
    /\ pool.providers = get_providers
    /\ pool.provider_configs = get_providers_auth
    /\ pool.blacklist = get_blacklist(key[1])
    /\ pool.ban_list = get_ban_list(key[2])

\* C8: when the configured provider list is empty, generate_subtitles,
\* manual_search and manual_download_subtitle end with the 'no providers'
\* outcome (unless they stopped before, with no language or no video) and
\* issue no provider query or download.
C8_NoQueryWhenThrottled ==
    (call.fn \in Orchestrators /\ ~Waiting(call) /\ call.providers = {})
    => /\ QueriesOf(call) = {}
       /\ call.outcome \in {"no_providers", "no_languages", "no_video", "IndexError",
                            "TypeError"}

\* C9: in every call of generate_subtitles, manual_search and
\* manual_download_subtitle the pool of the call's (media_type, profile_id) key
\* is refreshed by _update_pool before the call queries it or downloads from it.
C9_RefreshedBeforeQuery ==
    call.fn \in Orchestrators
    => \A i \in QueriesOf(call) :
          call.events[i].key = PoolKey(call.media_type, call.profile_id)
          => \E j \in 1..(i - 1) :
                /\ call.events[j].e = "update_pool"
                /\ call.events[j].key = call.events[i].key

\* C10: a pool is created only on the first use of its key, with a new
\* identity; afterwards the same pool object stays bound to the key, and
\* _update_pool applies the current configuration to that object.
C10_PoolBoundOnce ==
    [][ \A k \in Keys :
          /\ _pools[k].id # 0 => _pools'[k].id = _pools[k].id
          /\ (_pools[k].id = 0 /\ _pools'[k].id # 0)
                => /\ _pools'[k].id = 1
                   /\ \E i \in 1..Len(call'.events) :
                         call'.events[i].e = "update_pool" /\ call'.events[i].key = k
          /\ (call'.fn = "_update_pool" /\ PoolKey(call'.media_type, call'.profile_id) = k)
                => /\ _pools'[k].id # 0
                   /\ Fresh(_pools'[k], k)
                   /\ call'.outcome = (IF _pools[k].id # 0 /\ ~Fresh(_pools[k], k)
                                       THEN "True" ELSE "False") ]_vars

C10_Witness ==
    /\ call.fn = "_update_pool"
    /\ call.outcome = "True"
    /\ Fresh(_pools[PoolKey(call.media_type, call.profile_id)],
             PoolKey(call.media_type, call.profile_id))
    /\ Cardinality({ k \in Keys : _pools[k].id = 1 }) >= 3

\* ------------------------------------------------------------------------
\* The wanted flow run again and again on one episode
\* ------------------------------------------------------------------------
MissingInputs == { <<EN>>, <<EN, FR>> }

WantedSettings == { DefaultSettings, Setting(TRUE, <<"1", "d">>, <<"3", "d">>) }

InitWanted ==
    /\ now = 0
    /\ settings \in WantedSettings
    /\ input_attempts = List(<<>>)
    /\ last_op = NoOp
    /\ active = NoActive
    /\ updated = NoUpdated
    /\ failedAttempts = NonList
    /\ config = Config0
    /\ _pools = NoPools
    /\ call = NoCall
    /\ missing_subtitles \in MissingInputs
    /\ wanted = NoWanted
    /\ searches = NoSearches
    /\ batch = NoBatch
    /\ refined = NoRefined
    /\ threads = NoThreads
    /\ objects = NoObjects
    /\ movies = NoMovies
    /\ job = NoJob

\* lines 1147-1165: the episode row is selected, and _wanted_episode entered
\* if providers are available
WantedBegin ==
    /\ wanted.pc = "idle"
    /\ get_providers # {}
    /\ wanted' = EnterWanted("series", missing_subtitles, failedAttempts)
    /\ UNCHANGED <<now, settings, gateVars, recordVars, poolVars, missing_subtitles,
                   searches, batchVars, sideVars>>

\* lines 1092-1117: one turn of the loop over the selected missing languages
WantedLanguage ==
    /\ wanted.pc = "loop"
    /\ wanted.i <= Len(wanted.episode.missing_subtitles)
    /\ LET language == wanted.episode.missing_subtitles[wanted.i]
           attempts == AttemptSource(wanted.episode, failedAttempts)
           due == is_search_active(language, attempts, settings, now)
       IN  IF ~ConfirmedMissing(language, missing_subtitles)
           THEN /\ wanted' = [wanted EXCEPT !.i = @ + 1]
                /\ UNCHANGED failedAttempts
           ELSE IF due.val
           THEN /\ failedAttempts' = updateFailedAttempts(language, attempts, now).val
                /\ wanted' = [wanted EXCEPT !.i = @ + 1,
                                            !.languages = Append(@, LanguageTriple(language))]
           ELSE /\ wanted' = [wanted EXCEPT !.i = @ + 1]
                /\ UNCHANGED failedAttempts
    /\ UNCHANGED <<now, settings, gateVars, poolVars, missing_subtitles, searches, batchVars, sideVars>>

\* lines 1119-1144: generate_subtitles on the languages that are due, then
\* store_subtitles for what it saved
WantedSearch ==
    /\ wanted.pc = "loop"
    /\ wanted.i > Len(wanted.episode.missing_subtitles)
    /\ \E video_ok \in BOOLEAN, found \in SUBSET { wanted.languages[i] : i \in 1..Len(wanted.languages) } :
        LET r == generate_subtitles(_pools, 6, wanted.languages, wanted.media_type, NoProfile,
                                    video_ok, found, NoScore, Env0)
            searched == IF r.outcome = "searched"
                        THEN { TokenOf(wanted.languages[i]) : i \in 1..Len(wanted.languages) }
                        ELSE {}
            saved == { language_code(r.results[i]) : i \in 1..Len(r.results) }
        IN  /\ Cardinality(found) <= 1
            /\ _pools' = r.pools
            /\ call' = Call("generate_subtitles", 6, wanted.media_type, NoProfile,
                            [tokens |-> TokensOf(wanted.languages)], r)
            /\ searches' = [l \in Tokens |->
                              IF l \in searched
                              THEN [first |-> IF searches[l].first = -1 THEN now
                                              ELSE searches[l].first,
                                    prev |-> searches[l].last,
                                    last |-> now]
                              ELSE searches[l]]
            /\ missing_subtitles' = RemoveTokens(missing_subtitles, saved)
            /\ wanted' = NoWanted
    /\ UNCHANGED <<now, settings, gateVars, recordVars, config, batchVars, sideVars>>

\* a day passes between two runs of the job
NextDay ==
    /\ wanted.pc = "idle"
    /\ now < MaxDay
    /\ now' = now + 1
    /\ UNCHANGED <<settings, gateVars, recordVars, poolVars, wantedVars, batchVars, sideVars>>

\* another job saves a subtitle of the episode meanwhile
OtherJobSaves ==
    /\ \E n \in 1..Len(missing_subtitles) :
          missing_subtitles' = RemoveTokens(missing_subtitles, {missing_subtitles[n]})
    /\ UNCHANGED <<now, settings, gateVars, recordVars, poolVars, wanted, searches, batchVars, sideVars>>

NextWanted == NextDay \/ WantedBegin \/ WantedLanguage \/ WantedSearch \/ OtherJobSaves

SpecWanted == InitWanted /\ [][NextWanted]_vars

\* C4: in the wanted flow, with adaptive searching enabled, once a missing
\* language is past its delay_window, two consecutive searches issued for it
\* are at least delta_window apart, whatever the number of missing languages.
C4_SparseSearchesApart ==
    \A l \in Tokens :
        ( /\ settings.adaptive_searching
          /\ searches[l].prev # -1
          /\ searches[l].last >= searches[l].first + DelayWindow(settings) )
        => searches[l].last - searches[l].prev >= DeltaWindow(settings)

\* ------------------------------------------------------------------------
\* The search, download and upload calls, one at a time, on every input
\* ------------------------------------------------------------------------
\* the missing_subtitles tokens "en", "en:forced", "en:hi", "fr"
EN_FORCED == Token("en", "forced")
SearchTokens == {EN, EN_FORCED, EN_HI, FR}
TokensInputs == SeqsUpTo(SearchTokens, MaxLang)

\* lines 865-867, 1034-1036: the triples the batch callers pass
Triples(tokens) == [i \in 1..Len(tokens) |-> LanguageTriple(tokens[i])]

Items == { Item("en", "False", "False"), Item("en", "True", "False"),
           Item("en", "False", "True"), Item("fr", "False", "False") }
ItemsInputs == SeqsUpTo(Items, MaxLang) \ {<<>>}

Candidates == { Candidate(1, 1, FALSE), Candidate(2, 1, FALSE), Candidate(2, 2, FALSE),
                Candidate(3, 3, TRUE) }
CandidatesInputs == SeqsUpTo(Candidates, MaxCand)

\* what the providers list for an episode: with or without the hash match,
\* telling the episode or not
MatchesInputs == { {"hash"}, {"series", "season"}, {"hash", "series", "season"},
                   EpisodeMatches }
SeriesCandidates == { Listed(IF "hash" \in matches THEN 2 ELSE 1, 1, FALSE,
                             hash_verifiable, matches) :
                        hash_verifiable \in BOOLEAN, matches \in MatchesInputs }
SeriesCandidatesInputs == SeqsUpTo(SeriesCandidates, MaxCand)

\* the minimum_score / minimum_score_movie settings, in percent: unset, '0',
\* and '35', where the double product of a series falls below 126
MinimumScoreInputs == {NoScore, 0, 35}

\* what goes wrong in a call: nothing, building the video, the provider
\* layer, or saving to disk
Faults == {"none", "build", "provider", "save"}

\* forced_minimum_score: None in the automatic flow, int(score) in the
\* upgrade flow
PreviousScoreInputs == {NoScore} \cup 0..MaxPrev

InitSearch ==
    /\ now = 0
    /\ settings = DefaultSettings
    /\ input_attempts = List(<<>>)
    /\ last_op = NoOp
    /\ active = NoActive
    /\ updated = NoUpdated
    /\ failedAttempts = List(<<>>)
    /\ config \in { Config0, Config({}, 1, 1, 1) }
    /\ _pools = NoPools
    /\ call = NoCall
    /\ missing_subtitles = <<>>
    /\ wanted = NoWanted
    /\ searches = NoSearches
    /\ batch = NoBatch
    /\ refined = NoRefined
    /\ threads = NoThreads
    /\ objects = NoObjects
    /\ movies = NoMovies
    /\ job = NoJob

\* the automatic flow (lines 872-876, 1054-1059) and the upgrade flow (lines
\* 1594-1601): six positional arguments
SearchGenerate ==
    /\ call = NoCall
    /\ \E tokens \in TokensInputs, media_type \in MediaTypes,
          forced_minimum_score \in PreviousScoreInputs,
          minimum \in MinimumScoreInputs,
          fault \in Faults, nothing_found \in BOOLEAN :
        LET build_raises == fault = "build"
            provider_raises == fault = "provider"
            save_raises == fault = "save"
            languages == Triples(tokens)
            found == IF nothing_found THEN {}
                     ELSE { languages[i] : i \in 1..Len(languages) }
            env == Env(minimum, minimum, provider_raises, save_raises)
            r == generate_subtitles(_pools, 6, languages, media_type, NoProfile,
                                    get_video(build_raises) # NoVideo, found,
                                    forced_minimum_score, env)
        IN  /\ _pools' = r.pools
            /\ call' = Call("generate_subtitles", 6, media_type, NoProfile,
                            [tokens |-> tokens, forced_minimum_score |-> forced_minimum_score,
                             env |-> env, build_raises |-> build_raises, found |-> found],
                            r)
    /\ UNCHANGED <<now, settings, gateVars, recordVars, wantedVars, config, batchVars, sideVars>>

\* a manual search from the API: all arguments positional, providers is
\* get_providers()
SearchManual ==
    /\ call = NoCall
    /\ \E language_items \in ItemsInputs, candidates \in CandidatesInputs,
          fault \in Faults \ {"save"} :
        LET build_raises == fault = "build"
            provider_raises == fault = "provider"
            env == Env(NoScore, NoScore, provider_raises, FALSE)
            r == manual_search(_pools, 7, 1, get_providers, "movie", language_items,
                               get_video(build_raises) # NoVideo, candidates, env)
        IN  /\ candidates = <<>> \/ Len(language_items) = 1
            /\ _pools' = r.pools
            /\ call' = Call("manual_search", 7, "movie", 1,
                            [language_items |-> language_items, candidates |-> candidates,
                             env |-> env, build_raises |-> build_raises],
                            r)
    /\ UNCHANGED <<now, settings, gateVars, recordVars, wantedVars, config, batchVars, sideVars>>

\* a manual download from the API: all arguments positional
SearchDownload ==
    /\ call = NoCall
    /\ \E provider \in {"", "opensubtitles"}, valid \in BOOLEAN, fault \in Faults :
        LET build_raises == fault = "build"
            provider_raises == fault = "provider"
            save_raises == fault = "save"
            env == Env(NoScore, NoScore, provider_raises, save_raises)
            r == manual_download_subtitle(_pools, 12, provider, "movie", 1,
                                          get_video(build_raises) # NoVideo, valid, env)
        IN  /\ _pools' = r.pools
            /\ call' = Call("manual_download_subtitle", 12, "movie", 1,
                            [provider |-> provider, valid |-> valid,
                             env |-> env, build_raises |-> build_raises],
                            r)
    /\ UNCHANGED <<now, settings, gateVars, recordVars, wantedVars, config, batchVars, sideVars>>

\* a manual upload from the API
SearchUpload ==
    /\ call = NoCall
    /\ \E valid \in BOOLEAN, save_raises \in BOOLEAN :
        call' = Call("manual_upload_subtitle", 9, "movie", NoProfile,
                     [valid |-> valid,
                      env |-> Env(NoScore, NoScore, FALSE, save_raises)],
                     manual_upload_subtitle(valid, save_raises))
    /\ UNCHANGED <<now, settings, gateVars, recordVars, wantedVars, config, _pools, batchVars, sideVars>>

\* the caller is done with the result
CallReturns ==
    /\ call # NoCall
    /\ call' = NoCall
    /\ UNCHANGED <<now, settings, gateVars, recordVars, wantedVars, config, _pools, batchVars, sideVars>>

NextSearch ==
    \/ SearchGenerate
    \/ SearchManual
    \/ SearchDownload
    \/ SearchUpload
    \/ CallReturns

SpecSearch == InitSearch /\ [][NextSearch]_vars

\* ------------------------------------------------------------------------
\* series_download_subtitles run on a series while providers get throttled
\* and come back
\* ------------------------------------------------------------------------
InitBatch ==
    /\ now = 0
    /\ settings = DefaultSettings
    /\ input_attempts = List(<<>>)
    /\ last_op = NoOp
    /\ active = NoActive
    /\ updated = NoUpdated
    /\ failedAttempts = List(<<>>)
    /\ config = Config0
    /\ _pools = NoPools
    /\ call = NoCall
    /\ missing_subtitles = <<>>
    /\ wanted = NoWanted
    /\ searches = NoSearches
    /\ batch = NoBatch
    /\ refined = NoRefined
    /\ threads = NoThreads
    /\ objects = NoObjects
    /\ movies = NoMovies
    /\ job = NoJob

\* lines 810-833: the episodes are selected; with none the function returns
BatchStart ==
    /\ batch.pc \in {"idle", "done", "raised"}
    /\ \E n \in 0..MaxEpisodes :
          batch' = [NoBatch EXCEPT !.n = n, !.pc = IF n = 0 THEN "done" ELSE "loop"]
    /\ UNCHANGED <<now, settings, gateVars, recordVars, wantedVars, poolVars, sideVars>>

\* the custom language's tokens, and the standard language it is a variant of
PB == Token("pb", "")
PB_FORCED == Token("pb", "forced")
PT == Token("pt", "")

\* the missing_subtitles of an episode row as selected (never '[]', line 811)
BatchTokensInputs == { <<EN_HI>>, <<EN_FORCED>>, <<EN, FR>>, <<PB_FORCED>>, <<PT, PB>> }

\* lines 835-846, 895-899: a turn of the loop begins. get_providers() is
\* read; empty, the loop breaks; otherwise the progress is shown. episode:
\* the row of this turn, whose missing_subtitles column other jobs write
\* from now on; call, log and history are those of the turn
BatchPoll ==
    /\ batch.pc = "loop"
    /\ batch.i <= batch.n
    /\ IF get_providers = {}
       THEN /\ batch' = OnThrottled(batch)
            /\ UNCHANGED <<missing_subtitles, call>>
       ELSE \E episode \in BatchTokensInputs :
               /\ missing_subtitles' = episode
               /\ call' = NoCall
               /\ batch' = [batch EXCEPT !.pc = "turn", !.progress = "shown",
                                         !.episode = episode, !.k = 1,
                                         !.languages = <<>>,
                                         !.log = <<>>, !.history = <<>>]
    /\ UNCHANGED <<now, settings, gateVars, recordVars, wanted, searches, config, _pools, sideVars>>

\* lines 854-867: one turn of the loop over the row's missing languages:
\* the column is read again, and a language it no longer holds is passed
\* over
BatchLanguage ==
    /\ batch.pc = "turn"
    /\ batch.k <= Len(batch.episode)
    /\ LET language == batch.episode[batch.k]
       IN  batch' = [batch EXCEPT
                       !.k = @ + 1,
                       !.languages = IF ConfirmedMissing(language, missing_subtitles)
                                     THEN Append(@, LanguageTriple(language)) ELSE @]
    /\ UNCHANGED <<now, settings, gateVars, recordVars, wantedVars, poolVars, sideVars>>

\* lines 869-894: the rest of the turn, run on the settings as they are
\* now: the wrapper of generate_subtitles reads get_providers() again.
\* fault: the provider layer or save_subtitles raises; store_subtitles takes
\* what was saved off the missing list
BatchEpisode ==
    /\ batch.pc = "turn"
    /\ batch.k > Len(batch.episode)
    /\ \E fault \in {"none", "provider", "save"}, nothing_found \in BOOLEAN :
        LET languages == batch.languages
            tokens == TokensOf(languages)
            found == IF nothing_found THEN {}
                     ELSE { languages[k] : k \in 1..Len(languages) }
            env == Env(NoScore, NoScore, fault = "provider", fault = "save")
            r == generate_subtitles(_pools, 6, languages, "series", NoProfile,
                                    TRUE, found, NoScore, env)
            queried == \E k \in 1..Len(r.events) : r.events[k].e \in Queries
            saved == { HistoryCodes(r)[k] : k \in 1..Len(r.results) }
        IN  IF languages = <<>>
            THEN /\ fault = "none" /\ ~nothing_found
                 /\ batch' = [batch EXCEPT !.i = @ + 1, !.pc = "loop"]
                 /\ UNCHANGED <<_pools, call, missing_subtitles>>
            ELSE /\ _pools' = r.pools
                 /\ call' = Call("generate_subtitles", 6, "series", NoProfile,
                                 [tokens |-> tokens, forced_minimum_score |-> NoScore,
                                  env |-> env, build_raises |-> FALSE, found |-> found],
                                 r)
                 /\ missing_subtitles' = RemoveTokens(missing_subtitles, saved)
                 /\ batch' = [batch EXCEPT
                                !.log = RunLog(r),
                                !.history = HistoryCodes(r),
                                !.searched = IF queried THEN @ \cup {batch.i} ELSE @,
                                !.pc = IF r.outcome \in Raised THEN "raised" ELSE "loop",
                                !.i = IF r.outcome \in Raised THEN @ ELSE @ + 1]
    /\ UNCHANGED <<now, settings, gateVars, recordVars, wanted, searches, config, sideVars>>

\* line 899, after the last episode: hide_progress
BatchEnd ==
    /\ batch.pc = "loop"
    /\ batch.i > batch.n
    /\ batch' = [batch EXCEPT !.pc = "done", !.progress = "hidden"]
    /\ UNCHANGED <<now, settings, gateVars, recordVars, wantedVars, poolVars, sideVars>>

NextBatch ==
    \/ ChangeConfig
    \/ OtherJobSaves
    \/ BatchStart
    \/ BatchPoll
    \/ BatchLanguage
    \/ BatchEpisode
    \/ BatchEnd

SpecBatch == InitBatch /\ [][NextBatch]_vars

\* C15: in series_download_subtitles, once get_providers() is found empty
\* before an episode, no search is issued for that episode or a later one, the
\* progress indicator is cleared, and the function has returned without
\* raising.
C15_ThrottledBatchStops ==
    batch.empty_at # 0
    => /\ \A j \in batch.searched : j < batch.empty_at
       /\ batch.progress = "hidden"
       /\ batch.pc = "done"

\* providers emptied after the first of three episodes
C15_Witness ==
    /\ batch.n = 3
    /\ batch.searched = {1}
    /\ batch.empty_at = 2
    /\ batch.pc = "done"
    /\ batch.progress = "hidden"

\* the pool of the last call's (media_type, profile_id)
CallPool == _pools[PoolKey(call.media_type, call.profile_id)]

\* the last call queried a provider
Queried == QueriesOf(call) # {}

\* C11 (as stated): after a generate_subtitles or manual_search call, the
\* only_foreign / also_foreign flags of the call's pool equal their values
\* before the call.
C11_FlagsRestored ==
    call.fn \in {"generate_subtitles", "manual_search"}
    => Flags(CallPool) = call.flags_before

\* the variant a token declares
Declared(v, token) ==
    /\ v.base = alpha3_from_alpha2(token.code)
    /\ v.forced = (token.mod = "forced")
    /\ v.hi = (token.mod = "hi")

\* C12: the language set generate_subtitles queries holds, for each requested
\* token, exactly one variant with the token's base language and declared
\* forced/hi flags, and no variant that no token declares.
C12_ExactVariants ==
    (call.fn = "generate_subtitles" /\ Queried)
    => LET tokens == call.inp.tokens
       IN  /\ \A i \in 1..Len(tokens) :
                 Cardinality({ v \in call.language_set : Declared(v, tokens[i]) }) = 1
           /\ \A v \in call.language_set :
                 \E i \in 1..Len(tokens) : Declared(v, tokens[i])

C12_Witness ==
    /\ call.fn = "generate_subtitles"
    /\ Queried
    /\ call.inp.tokens = <<EN_FORCED, FR>>
    /\ call.language_set = { Variant("eng", TRUE, FALSE), Variant("fra", FALSE, FALSE) }

AllVariants == { Variant(b, f, h) : b \in {"eng", "fra"}, f \in BOOLEAN, h \in BOOLEAN }

\* C13: the language set manual_search queries is the profile's variants plus
\* the HI-toggled counterpart of every non-forced one, nothing for the forced
\* ones, and expanding it again adds nothing.
C13_HiExpansion ==
    (call.fn = "manual_search" /\ Queried)
    => LET items == call.inp.language_items
           profile == { ItemVariant(items[i]) : i \in 1..Len(items) }
       IN  /\ call.language_set \subseteq AllVariants
           /\ \A v \in AllVariants :
                 v \in call.language_set
                 <=> \/ v \in profile
                     \/ ~v.forced /\ Variant(v.base, FALSE, ~v.hi) \in profile
           /\ ExpandHi(call.language_set) = call.language_set

C13_Witness ==
    /\ call.fn = "manual_search"
    /\ Queried
    /\ call.inp.language_items = <<Item("fr", "False", "False"), Item("en", "True", "False")>>
    /\ call.language_set = { Variant("fra", FALSE, FALSE), Variant("fra", FALSE, TRUE),
                             Variant("eng", TRUE, FALSE) }

\* C14 (as stated): in the upgrade flow, whatever the previous score p (0
\* included) and the configured minimum, the provider query is given
\* min_score = p + 1.
C14_UpgradeFloor ==
    (call.fn = "generate_subtitles" /\ Queried /\ call.inp.forced_minimum_score # NoScore)
    => call.min_score = call.inp.forced_minimum_score + 1

\* C16 (as stated): an exception the provider layer raises while listing or
\* downloading leaves none of the three search calls.
C16_ProviderErrorsCaught ==
    (call.fn \in Orchestrators /\ call.inp.env.provider_raises)
    => call.outcome \notin Raised

\* C17: when save_subtitles raises, generate_subtitles and
\* manual_download_subtitle return no result for the subtitle, nothing is
\* saved, and no exception leaves the call.
C17_SaveFailureSilent ==
    /\ ( /\ call.fn = "generate_subtitles"
         /\ Queried
         /\ call.inp.found # {}
         /\ call.inp.env.save_raises )
       => (call.results = <<>> /\ call.saved = {} /\ call.outcome \notin Raised)
    /\ ( /\ call.fn = "manual_download_subtitle"
         /\ Queried
         /\ call.inp.valid
         /\ call.inp.env.save_raises )
       => (call.results = <<>> /\ call.saved = {} /\ call.outcome \notin Raised)

C17_Witness ==
    /\ call.fn = "generate_subtitles"
    /\ Queried
    /\ call.inp.found # {}
    /\ call.inp.env.save_raises
    /\ call.results = <<>>

\* C18 (as stated): a subtitle that fails the validity check is never saved
\* and gives no result, in manual_download_subtitle and in
\* manual_upload_subtitle.
C18_InvalidDiscarded ==
    (call.fn \in {"manual_download_subtitle", "manual_upload_subtitle"} /\ ~call.inp.valid)
    => (call.saved = {} /\ call.results = <<>>)

\* C19: when building the video raises, get_video returns null, and the
\* calling flow issues no provider query, saves nothing, returns no result and
\* raises nothing.
C19_NoVideoSkips ==
    (call.fn \in Orchestrators /\ call.inp.build_raises)
    => /\ get_video(call.inp.build_raises) = NoVideo
       /\ ~Queried
       /\ call.saved = {}
       /\ call.results = <<>>
       /\ call.outcome \notin Raised

C19_Witness ==
    /\ call.fn = "generate_subtitles"
    /\ call.inp.build_raises
    /\ call.inp.tokens # <<>>
    /\ call.providers # {}
    /\ call.outcome = "no_video"

\* C20: the list manual_search returns is in descending order of
\* (orig_score, score_without_hash): each entry's pair is at least the next
\* entry's.
C20_SortedDescending ==
    call.fn = "manual_search"
    => \A i \in 1..(Len(call.results) - 1) :
          LET a == call.results[i]
              b == call.results[i + 1]
          IN  \/ a.orig_score > b.orig_score
              \/ a.orig_score = b.orig_score /\ a.score_without_hash >= b.score_without_hash

C20_Witness ==
    /\ call.fn = "manual_search"
    /\ call.inp.candidates = <<Candidate(1, 1, FALSE), Candidate(2, 2, FALSE),
                               Candidate(2, 1, FALSE)>>
    /\ call.results = <<Candidate(2, 2, FALSE), Candidate(2, 1, FALSE),
                        Candidate(1, 1, FALSE)>>

\* ------------------------------------------------------------------------
\* get_video on drawn guesses, library rows and ffprobe results
\* ------------------------------------------------------------------------
\* what parse_video names from the path: together, or not at all
Naming(kind) == IF kind = "episode" THEN {"series", "season", "episode", "title"}
                ELSE {"title"}
Technical(kind) == Attrs(kind) \ (Naming(kind) \cup {"series_tvdb_id", "alternative_series",
                                                     "alternative_titles"})

\* the guess: the naming attributes, any of the technical ones, and with or
\* without fps and an audio language
GuessInputs(kind) ==
    { [a \in Attrs(kind) \cup ProbeAttrs |->
         IF a = "audio_languages" THEN (IF probed THEN {"eng"} ELSE {})
         ELSE IF a = "fps" THEN (IF probed THEN Guessed(a) ELSE Unset)
         ELSE IF a \in named \cup technical THEN Guessed(a) ELSE Unset] :
        named \in {{}, Naming(kind)}, technical \in SUBSET Technical(kind),
        probed \in BOOLEAN }

\* cached ffprobe results: none, tracks without keys, tracks with all keys,
\* audio tracks in one language
ProbeInputs ==
    { Probe(v, a, l) : v \in {NoTrack, Track({}), Track({"resolution", "codec", "frame_rate"})},
                       a \in {NoTrack, Track({}), Track({"codec"})},
                       l \in {{}, {"eng"}, {"fra"}} }

Nullable == {"imdbId", "format", "resolution", "video_codec", "audio_codec"}

RowInputs(kind) ==
    {NoRow} \cup { [c \in Columns(kind) |-> IF c \in nulls THEN Null ELSE Db(c)] :
                     nulls \in SUBSET Nullable }

InitRefine ==
    /\ now = 0
    /\ settings = DefaultSettings
    /\ input_attempts = List(<<>>)
    /\ last_op = NoOp
    /\ active = NoActive
    /\ updated = NoUpdated
    /\ failedAttempts = List(<<>>)
    /\ config = Config0
    /\ _pools = NoPools
    /\ call = NoCall
    /\ missing_subtitles = <<>>
    /\ wanted = NoWanted
    /\ searches = NoSearches
    /\ batch = NoBatch
    /\ \E kind \in VideoKinds :
         \E guess \in GuessInputs(kind), data \in RowInputs(kind) :
            refined = [pc |-> "parsed", kind |-> kind, guess |-> guess, data |-> data,
                       ffprobe |-> NoProbe, video |-> guess]
    /\ threads = NoThreads
    /\ objects = NoObjects
    /\ movies = NoMovies
    /\ job = NoJob

\* line 80
RefineFromDb ==
    /\ refined.pc = "parsed"
    /\ refined' = [refined EXCEPT !.pc = "refined",
                                  !.video = refine_from_db(refined.kind, @, refined.data)]
    /\ UNCHANGED <<now, settings, gateVars, recordVars, poolVars, wantedVars, batchVars,
                   threads, objects, movies, job>>

\* line 81
RefineFromFfprobe ==
    /\ refined.pc = "refined"
    /\ \E ffprobe \in ProbeInputs :
          /\ ffprobe.audio.present \/ ffprobe.languages = {}
          /\ refined' = [refined EXCEPT !.pc = "probed", !.ffprobe = ffprobe,
                                        !.video = refine_from_ffprobe(@, ffprobe)]
    /\ UNCHANGED <<now, settings, gateVars, recordVars, poolVars, wantedVars, batchVars,
                   threads, objects, movies, job>>

NextRefine == RefineFromDb \/ RefineFromFfprobe

SpecRefine == InitRefine /\ [][NextRefine]_vars

\* the attributes C21 lists
Claimed(kind) == Attrs(kind) \ {"alternative_series", "alternative_titles"}

LibrarySupplies(kind, a, data) == data # NoRow /\ Truthy(data[ColumnOf(kind, a)])

\* C21: in the descriptor get_video resolves, every attribute (titles,
\* season/episode, external ids, source, resolution, video codec, audio codec)
\* that both the filename guess and the library row supply has the library's
\* value.
C21_LibraryOverridesGuess ==
    refined.pc \in {"refined", "probed"}
    => \A a \in Claimed(refined.kind) :
          (Truthy(refined.guess[a]) /\ LibrarySupplies(refined.kind, a, refined.data))
          => refined.video[a].src = "db"

\* ------------------------------------------------------------------------
\* Threads calling _get_pool, _update_pool and generate_subtitles for one key
\* at the same time
\* ------------------------------------------------------------------------
Threads == 1..MaxThreads

ThreadInputs ==
    { Enter(op, forced) : op \in {"_get_pool", "_update_pool"}, forced \in {FALSE} }
    \cup { Enter("generate_subtitles", forced) : forced \in BOOLEAN }

InitRace ==
    /\ now = 0
    /\ settings = DefaultSettings
    /\ input_attempts = List(<<>>)
    /\ last_op = NoOp
    /\ active = NoActive
    /\ updated = NoUpdated
    /\ failedAttempts = List(<<>>)
    /\ config = Config0
    /\ _pools = NoPools
    /\ call = NoCall
    /\ missing_subtitles = <<>>
    /\ wanted = NoWanted
    /\ searches = NoSearches
    /\ batch = NoBatch
    /\ refined = NoRefined
    /\ threads \in [Threads -> ThreadInputs]
    /\ objects = NoObjects
    /\ movies = NoMovies
    /\ job = NoJob

\* line 120
UpdateCheck(t) ==
    /\ threads[t].pc = "update_check"
    /\ threads' = [threads EXCEPT ![t].pc = IF NotInPools(_pools, RaceKey)
                                            THEN "update_init" ELSE "update_apply"]
    /\ UNCHANGED <<now, settings, gateVars, recordVars, poolVars, wantedVars, batchVars,
                   refined, objects, movies, job>>

\* line 122
UpdateInit(t) ==
    /\ threads[t].pc = "update_init"
    /\ LET new == _init_pool(Len(objects) + 1, "series", NoProfile, {})
       IN  /\ objects' = Append(objects, new)
           /\ _pools' = [_pools EXCEPT ![RaceKey] = new]
    /\ threads' = [threads EXCEPT ![t].pc = "update_apply"]
    /\ UNCHANGED <<now, settings, gateVars, recordVars, config, call, wantedVars, batchVars,
                   refined, movies, job>>

\* lines 124-133
UpdateApply(t) ==
    /\ threads[t].pc = "update_apply"
    /\ LET pool == _pools[RaceKey]
           new == PoolUpdate(pool, get_providers, get_providers_auth,
                             get_blacklist("series"), get_ban_list(NoProfile))
       IN  /\ objects' = StoreObject(objects, pool.id, new)
           /\ _pools' = StorePools(_pools, pool.id, new)
           /\ threads' = [threads EXCEPT
                            ![t].pc = threads[t].ret,
                            ![t].pool = IF threads[t].op = "_update_pool" THEN pool.id ELSE @]
    /\ UNCHANGED <<now, settings, gateVars, recordVars, config, call, wantedVars, batchVars,
                   refined, movies, job>>

\* lines 107-110
GetPool(t) ==
    /\ threads[t].pc = "get_pool"
    /\ threads' = IF NotInPools(_pools, RaceKey)
                  THEN [threads EXCEPT ![t].pc = "update_check", ![t].ret = "get_return"]
                  ELSE [threads EXCEPT ![t].pc = AfterGet(threads[t]),
                                       ![t].pool = _pools[RaceKey].id]
    /\ UNCHANGED <<now, settings, gateVars, recordVars, poolVars, wantedVars, batchVars,
                   refined, objects, movies, job>>

\* line 112
GetReturn(t) ==
    /\ threads[t].pc = "get_return"
    /\ threads' = [threads EXCEPT ![t].pc = AfterGet(threads[t]),
                                  ![t].pool = _pools[RaceKey].id]
    /\ UNCHANGED <<now, settings, gateVars, recordVars, poolVars, wantedVars, batchVars,
                   refined, objects, movies, job>>

\* lines 190-198: one of the three stores, no lock held; after the third
\* the call goes on to the query
WriteFlag(t) ==
    /\ threads[t].pc = "write_flag"
    /\ LET id == threads[t].pool
           n == threads[t].store
           new == [objects[id] EXCEPT !.only_foreign[n] = threads[t].forced]
       IN  /\ objects' = StoreObject(objects, id, new)
           /\ _pools' = StorePools(_pools, id, new)
           /\ threads' = [threads EXCEPT
                            ![t].store = IF n < Len(FlagProviders) THEN n + 1 ELSE n,
                            ![t].pc = IF n < Len(FlagProviders) THEN "write_flag" ELSE "query"]
    /\ UNCHANGED <<now, settings, gateVars, recordVars, config, call, wantedVars, batchVars,
                   refined, movies, job>>

\* lines 228-242
Query(t) ==
    /\ threads[t].pc = "query"
    /\ threads' = [threads EXCEPT
                     ![t].pc = "done",
                     ![t].queried = TRUE,
                     ![t].query_flag = QueryFlag(objects[threads[t].pool], threads[t].forced)]
    /\ UNCHANGED <<now, settings, gateVars, recordVars, poolVars, wantedVars, batchVars,
                   refined, objects, movies, job>>

NextRace ==
    \E t \in Threads :
        \/ UpdateCheck(t)
        \/ UpdateInit(t)
        \/ UpdateApply(t)
        \/ GetPool(t)
        \/ GetReturn(t)
        \/ WriteFlag(t)
        \/ Query(t)

SpecRace == InitRace /\ [][NextRace]_vars

\* C22: however concurrent first calls of _get_pool / _update_pool for one
\* key interleave, one pool object only is created for the key, and all
\* callers get that object.
C22_OnePoolPerKey ==
    /\ Len(objects) <= 1
    /\ \A t, u \in Threads :
          (threads[t].pool # 0 /\ threads[u].pool # 0) => threads[t].pool = threads[u].pool

\* C23: the provider query of a generate_subtitles call runs with the
\* only_foreign value the shared pool object holds at that moment, whichever
\* call wrote it; with a forced and a non-forced call on one key this is, in
\* some interleaving, the value the other call wrote.
C23_QueryReadsSharedFlag ==
    [][ \A t \in Threads :
          (threads[t].pc = "query" /\ threads'[t].pc = "done")
          => threads'[t].query_flag = objects[threads[t].pool].only_foreign ]_vars

\* a forced and a non-forced call shared one pool object, and one of them
\* queried with the other's value
C23_Witness ==
    \E t, u \in Threads :
        /\ threads[t].op = "generate_subtitles" /\ threads[u].op = "generate_subtitles"
        /\ threads[t].forced /\ ~threads[u].forced
        /\ threads[t].pool = threads[u].pool
        /\ threads[t].queried /\ threads[u].queried
        /\ \/ threads[t].query_flag # OnlyForeignFlags(threads[t].forced)
           \/ threads[u].query_flag # OnlyForeignFlags(threads[u].forced)

\* the languages are all looked at: _wanted_episode is about to call
\* generate_subtitles (line 1119)
LanguagesDone == wanted.pc = "loop" /\ wanted.i > Len(wanted.episode.missing_subtitles)

\* C24: after the language loop of one run of _wanted_episode / _wanted_movie
\* the persisted failedAttempts holds an attempt of this run for every
\* language that was due.
C24_EveryAttemptRecorded ==
    LanguagesDone
    => \A k \in 1..Len(wanted.languages) :
          /\ failedAttempts.kind = "list"
          /\ now \in TimesOf(TokenOf(wanted.languages[k]), failedAttempts)

\* ------------------------------------------------------------------------
\* movies_download_subtitles run again and again on one movie, while other
\* jobs save subtitles and providers get throttled and come back
\* ------------------------------------------------------------------------
InitMovies ==
    /\ now = 0
    /\ settings = DefaultSettings
    /\ input_attempts = List(<<>>)
    /\ last_op = NoOp
    /\ active = NoActive
    /\ updated = NoUpdated
    /\ failedAttempts = List(<<>>)
    /\ config = Config0
    /\ _pools = NoPools
    /\ call = NoCall
    /\ missing_subtitles \in MissingInputs
    /\ wanted = NoWanted
    /\ searches = NoSearches
    /\ batch = NoBatch
    /\ refined = NoRefined
    /\ threads = NoThreads
    /\ objects = NoObjects
    /\ movies = NoMovies
    /\ job = NoJob

\* lines 998-1028: the movie row is selected
MoviesBegin ==
    /\ movies.pc \in {"idle", "done"}
    /\ movies' = [NoMovies EXCEPT !.pc = "loop", !.movie = missing_subtitles]
    /\ UNCHANGED <<now, settings, gateVars, recordVars, poolVars, wantedVars, batchVars,
                   refined, threads, objects, job>>

\* lines 1030-1051: one turn of the loop over the selected missing languages
MoviesLanguage ==
    /\ movies.pc = "loop"
    /\ movies.i <= Len(movies.movie)
    /\ LET language == movies.movie[movies.i]
           providers_list == get_providers
           requeried == providers_list # {}
           confirmed == requeried /\ ConfirmedMissing(language, missing_subtitles)
       IN  movies' = [movies EXCEPT
                        !.i = @ + 1,
                        !.providers_list = providers_list,
                        !.languages = MoviesAppend(@, language),
                        !.confirmed = Append(@, confirmed),
                        !.progress = IF confirmed THEN "shown" ELSE @]
    /\ UNCHANGED <<now, settings, gateVars, recordVars, poolVars, wantedVars, batchVars,
                   refined, threads, objects, job>>

\* lines 1053-1081: generate_subtitles on the languages collected, unless
\* the last get_providers() was empty; then hide_progress
MoviesSearch ==
    /\ movies.pc = "loop"
    /\ movies.i > Len(movies.movie)
    /\ \E video_ok \in BOOLEAN, found \in SUBSET { movies.languages[i] : i \in 1..Len(movies.languages) } :
        LET r == generate_subtitles(_pools, 6, movies.languages, "movie", NoProfile,
                                    video_ok, found, NoScore, Env0)
            saved == { language_code(r.results[i]) : i \in 1..Len(r.results) }
        IN  IF movies.providers_list # {}
            THEN /\ _pools' = r.pools
                 /\ call' = Call("generate_subtitles", 6, "movie", NoProfile, NoInputs, r)
                 /\ missing_subtitles' = RemoveTokens(missing_subtitles, saved)
                 /\ movies' = [movies EXCEPT !.pc = "done", !.passed = TRUE,
                                             !.progress = "hidden"]
            ELSE /\ video_ok /\ found = {}
                 /\ movies' = [movies EXCEPT !.pc = "done", !.progress = "hidden"]
                 /\ UNCHANGED <<_pools, call, missing_subtitles>>
    /\ UNCHANGED <<now, settings, gateVars, recordVars, config, wanted, searches, batchVars,
                   refined, threads, objects, job>>

NextMovies == ChangeConfig \/ OtherJobSaves \/ MoviesBegin \/ MoviesLanguage \/ MoviesSearch

SpecMovies == InitMovies /\ [][NextMovies]_vars

\* C26: movies_download_subtitles passes a language of the selected missing
\* list to generate_subtitles only if the missing_subtitles column, re-read at
\* that language's turn, still holds it.
C26_MoviesOnlyStillMissing ==
    (movies.pc = "done" /\ movies.passed)
    => \A k \in 1..Len(movies.languages) : movies.confirmed[k]

\* ------------------------------------------------------------------------
\* The wanted sweeps, upgrade_subtitles and episode_download_subtitles run
\* while providers get throttled and come back
\* ------------------------------------------------------------------------
InitJobs ==
    /\ now = 0
    /\ settings = DefaultSettings
    /\ input_attempts = List(<<>>)
    /\ last_op = NoOp
    /\ active = NoActive
    /\ updated = NoUpdated
    /\ failedAttempts = NonList
    /\ config = Config0
    /\ _pools = NoPools
    /\ call = NoCall
    /\ missing_subtitles = <<>>
    /\ wanted = NoWanted
    /\ searches = NoSearches
    /\ batch = NoBatch
    /\ refined = NoRefined
    /\ threads = NoThreads
    /\ objects = NoObjects
    /\ movies = NoMovies
    /\ job = NoJob

SweepIndicator(fn) == IF fn = "wanted_search_missing_subtitles_series"
                      THEN "wanted_episodes_progress" ELSE "wanted_movies_progress"

\* lines 1254-1270, 1294-1303: the items with missing subtitles are selected
SweepStart ==
    /\ job.pc = "idle"
    /\ \E fn \in Sweeps, n \in 0..MaxEpisodes :
          job' = [NoJob EXCEPT !.fn = fn, !.n = n, !.pc = "loop"]
    /\ UNCHANGED <<now, settings, gateVars, recordVars, poolVars, wantedVars, batchVars,
                   refined, threads, objects, movies>>

\* lines 1271-1286, 1304-1317: one turn of the loop, up to the call of
\* wanted_download_subtitles(_movie): the indicator is shown and the sweep
\* reads the providers, line 1281 (1312)
SweepItem ==
    /\ job.fn \in Sweeps
    /\ job.pc = "loop"
    /\ job.i <= job.n
    /\ LET id == SweepIndicator(job.fn)
       IN  job' = IF get_providers # {}
                  THEN [Show(job, id) EXCEPT !.pc = "select"]
                  ELSE SweepReturn(Show(job, id), id)
    /\ UNCHANGED <<now, settings, gateVars, recordVars, poolVars, wantedVars, batchVars,
                   refined, threads, objects, movies>>

\* lines 1147-1168, 1231-1250: wanted_download_subtitles(_movie) has selected
\* the item's row and reads the providers again, line 1162 (1244): with
\* providers it enters _wanted_episode / _wanted_movie for the row, with none
\* it logs, leaves its loop and returns to the sweep
SweepDownload ==
    /\ job.fn \in Sweeps
    /\ job.pc = "select"
    /\ LET media_type == IF job.fn = "wanted_search_missing_subtitles_series"
                         THEN "series" ELSE "movie"
       IN  IF get_providers # {}
           THEN \E row \in MissingInputs :
                   /\ missing_subtitles' = row
                   /\ failedAttempts' = NonList
                   /\ wanted' = EnterWanted(media_type, row, NonList)
                   /\ job' = [job EXCEPT !.pc = "item"]
           ELSE /\ job' = [job EXCEPT !.pc = "loop", !.i = @ + 1]
                /\ UNCHANGED <<missing_subtitles, failedAttempts, wanted>>
    /\ UNCHANGED <<now, settings, gateVars, poolVars, searches, batchVars,
                   refined, threads, objects, movies>>

\* wanted_download_subtitles(_movie) has returned: the next turn
SweepItemReturns ==
    /\ job.fn \in Sweeps
    /\ job.pc = "item"
    /\ wanted.pc = "idle"
    /\ job' = [job EXCEPT !.pc = "loop", !.i = @ + 1]
    /\ UNCHANGED <<now, settings, gateVars, recordVars, poolVars, wantedVars, batchVars,
                   refined, threads, objects, movies>>

\* lines 1288, 1319: after the last item
SweepEnd ==
    /\ job.fn \in Sweeps
    /\ job.pc = "loop"
    /\ job.i > job.n
    /\ job' = [Hide(job, SweepIndicator(job.fn)) EXCEPT !.pc = "done"]
    /\ UNCHANGED <<now, settings, gateVars, recordVars, poolVars, wantedVars, batchVars,
                   refined, threads, objects, movies>>

NextSweep ==
    \/ ChangeConfig
    \/ SweepStart
    \/ SweepItem
    \/ SweepDownload
    \/ WantedLanguage
    \/ WantedSearch
    \/ OtherJobSaves
    \/ SweepItemReturns
    \/ SweepEnd

SpecSweep == InitJobs /\ [][NextSweep]_vars

\* C27: when a wanted sweep finds get_providers() empty at an item, it
\* returns without treating that item or a later one, and its progress
\* indicator is cleared when it returns.
C27_ThrottledSweepClears ==
    (job.fn \in Sweeps /\ job.empty_at # 0)
    => /\ job.pc = "done"
       /\ job.i = job.empty_at
       /\ job.progress[SweepIndicator(job.fn)] = "hidden"

\* the score column of the rows drawn: 0, either side of the near-perfect
\* score, the perfect score, a text and NULL
UpgradeScores(media_type) ==
    { IntScore(v) : v \in {0, NearPerfectScore(media_type) - 1,
                           NearPerfectScore(media_type) + 1, PerfectScore(media_type)} }
    \cup {TextScore, NullScore}

\* Hindi without a modifier: the language string "hi"
HINDI == Token("hi", "")

\* rows of the history tables: outside and inside the window, downloaded
\* automatically (1) or manually (2), the file kept or gone
UpgradeRows(media_type) ==
    { HistoryRow(t, s, a, e, l) : t \in {MaxDay - 2, MaxDay - 1},
                                  s \in UpgradeScores(media_type), a \in {1, 2},
                                  e \in BOOLEAN, l \in {EN, EN_FORCED, HINDI} }

\* a history table: one row of any kind, or up to MaxEpisodes rows that can
\* be upgraded
UpgradeHistoryInputs(media_type) ==
    { <<r>> : r \in UpgradeRows(media_type) }
    \cup { [i \in 1..k |-> HistoryRow(MaxDay - 1, IntScore(NearPerfectScore(media_type) - 1),
                                      1, TRUE, EN)] : k \in 0..MaxEpisodes }

InitUpgrade ==
    /\ now = MaxDay
    /\ settings = DefaultSettings
    /\ input_attempts = List(<<>>)
    /\ last_op = NoOp
    /\ active = NoActive
    /\ updated = NoUpdated
    /\ failedAttempts = NonList
    /\ config = Config0
    /\ _pools = NoPools
    /\ call = NoCall
    /\ missing_subtitles = <<>>
    /\ wanted = NoWanted
    /\ searches = NoSearches
    /\ batch = NoBatch
    /\ refined = NoRefined
    /\ threads = NoThreads
    /\ objects = NoObjects
    /\ movies = NoMovies
    /\ job = NoJob

\* lines 1461-1557: the subtitles to upgrade are selected, for the services
\* in use
UpgradeStart ==
    /\ job.pc = "idle"
    /\ \E use_sonarr \in BOOLEAN, use_radarr \in BOOLEAN, upgrade_manual \in BOOLEAN,
          days_to_upgrade_subs \in {2, 3},
          episodes \in UpgradeHistoryInputs("series"),
          movies_ \in UpgradeHistoryInputs("movie") :
        LET min_ts == minimum_timestamp(now, days_to_upgrade_subs)
            upgradable_episodes == upgradable(episodes, upgrade_manual, min_ts)
            upgradable_movies == upgradable(movies_, upgrade_manual, min_ts)
            raises == \/ use_sonarr /\ SelectionRaises(upgradable_episodes, min_ts)
                      \/ use_radarr /\ SelectionRaises(upgradable_movies, min_ts)
            episodes_to_upgrade == UpgradeSelection(episodes, "series", upgrade_manual, min_ts)
            movies_to_upgrade == UpgradeSelection(movies_, "movie", upgrade_manual, min_ts)
        IN  /\ use_sonarr \/ episodes = <<>>
            /\ use_radarr \/ movies_ = <<>>
            /\ job' = IF raises
                      THEN [NoJob EXCEPT !.fn = "upgrade_subtitles", !.pc = "TypeError",
                                         !.use_sonarr = use_sonarr, !.use_radarr = use_radarr,
                                         !.upgrade_manual = upgrade_manual,
                                         !.days_to_upgrade_subs = days_to_upgrade_subs,
                                         !.started = now]
                      ELSE [NoJob EXCEPT !.fn = "upgrade_subtitles",
                                         !.n = Len(episodes_to_upgrade),
                                         !.m = Len(movies_to_upgrade),
                                         !.episodes_to_upgrade = episodes_to_upgrade,
                                         !.movies_to_upgrade = movies_to_upgrade,
                                         !.use_sonarr = use_sonarr, !.use_radarr = use_radarr,
                                         !.upgrade_manual = upgrade_manual,
                                         !.days_to_upgrade_subs = days_to_upgrade_subs,
                                         !.started = now,
                                         !.pc = IF use_sonarr THEN "episodes"
                                                ELSE IF use_radarr THEN "movies" ELSE "done"]
    /\ UNCHANGED <<now, settings, gateVars, recordVars, poolVars, wantedVars, batchVars,
                   refined, threads, objects, movies>>

UpgradeIndicator(pc) == IF pc = "episodes" THEN "upgrade_episodes_progress"
                        ELSE "upgrade_movies_progress"
UpgradeCount(j) == IF j.pc = "episodes" THEN j.n ELSE j.m

\* lines 1575-1586, 1638-1649: (language, is_hi, is_forced) of a history
\* row's language string: endswith('forced') and endswith('hi') are tested on
\* the whole string, which has no colon when it has no modifier
UpgradeTriple(language) ==
    LET text == IF language.mod = "" THEN language.code
                ELSE language.code \o ":" \o language.mod
        ends(suffix) ==
            /\ Len(text) >= Len(suffix)
            /\ SubSeq(text, Len(text) - Len(suffix) + 1, Len(text)) = suffix
    IN  IF ends("forced") THEN <<language.code, "False", "True">>
        ELSE IF ends("hi") THEN <<language.code, "True", "False">>
        ELSE <<language.code, "False", "False">>

\* lines 1560, 1626: the row the loop is at
UpgradeEntry(j) ==
    IF j.pc = "episodes" THEN j.episodes_to_upgrade[j.i] ELSE j.movies_to_upgrade[j.i]

\* lines 1560-1573, 1626-1637: a turn of the episode loop or of the movie
\* loop begins. get_providers() is read and the progress shown; with no
\* provider the function returns
UpgradePoll ==
    /\ job.fn = "upgrade_subtitles"
    /\ job.pc \in {"episodes", "movies"}
    /\ job.i <= UpgradeCount(job)
    /\ ~job.polled
    /\ LET id == UpgradeIndicator(job.pc)
       IN  job' = IF get_providers = {} THEN SweepReturn(Show(job, id), id)
                  ELSE [Show(job, id) EXCEPT !.polled = TRUE]
    /\ UNCHANGED <<now, settings, gateVars, recordVars, poolVars, wantedVars, batchVars,
                   refined, threads, objects, movies>>

\* lines 1574-1621, 1638-1687: the rest of the turn, run on the settings as
\* they are now: the wrapper of generate_subtitles reads get_providers()
\* again
UpgradeItem ==
    /\ job.fn = "upgrade_subtitles"
    /\ job.pc \in {"episodes", "movies"}
    /\ job.polled
    /\ \E video_ok \in BOOLEAN, nothing_found \in BOOLEAN :
        LET id == UpgradeIndicator(job.pc)
            media_type == IF job.pc = "episodes" THEN "series" ELSE "movie"
            entry == UpgradeEntry(job)
            languages == <<UpgradeTriple(entry.language)>>
            found == IF nothing_found THEN {} ELSE {languages[1]}
            r == generate_subtitles(_pools, 6, languages, media_type, NoProfile,
                                    video_ok, found, entry.score.v, Env0)
        IN       /\ _pools' = r.pools
                 /\ call' = Call("generate_subtitles", 6, media_type, NoProfile,
                                 [tokens |-> <<entry.language>>,
                                  forced_minimum_score |-> entry.score.v,
                                  env |-> Env0, build_raises |-> ~video_ok, found |-> found,
                                  entry |-> entry],
                                 r)
                 /\ job' = [job EXCEPT !.i = @ + 1, !.polled = FALSE]
    /\ UNCHANGED <<now, settings, gateVars, recordVars, wantedVars, config, batchVars,
                   refined, threads, objects, movies>>

\* lines 1623, 1689: after the last item of a loop
UpgradeLoopEnd ==
    /\ job.fn = "upgrade_subtitles"
    /\ job.pc \in {"episodes", "movies"}
    /\ job.i > UpgradeCount(job)
    /\ job' = [Hide(job, UpgradeIndicator(job.pc)) EXCEPT
                 !.pc = IF job.pc = "episodes" /\ job.use_radarr THEN "movies" ELSE "done",
                 !.i = 1]
    /\ UNCHANGED <<now, settings, gateVars, recordVars, poolVars, wantedVars, batchVars,
                   refined, threads, objects, movies>>

NextUpgrade == ChangeConfig \/ UpgradeStart \/ UpgradePoll \/ UpgradeItem \/ UpgradeLoopEnd

SpecUpgrade == InitUpgrade /\ [][NextUpgrade]_vars

\* C28: when upgrade_subtitles finds get_providers() empty at an item of the
\* episode loop or of the movie loop, it returns without treating that item
\* or a later one, and every progress indicator it has shown is cleared when
\* it returns.
C28_ThrottledUpgradeClears ==
    (job.fn = "upgrade_subtitles" /\ job.empty_at # 0)
    => /\ job.pc = "done"
       /\ job.i = job.empty_at
       /\ \A id \in job.shown : job.progress[id] = "hidden"

\* lines 902-923: the episode rows are selected; with none the function
\* returns
EpisodeStart ==
    /\ job.pc = "idle"
    /\ \E send_progress \in BOOLEAN, n \in 0..MaxEpisodes :
          job' = [NoJob EXCEPT !.fn = "episode_download_subtitles", !.n = n,
                               !.send_progress = send_progress,
                               !.pc = IF n = 0 THEN "done" ELSE "loop"]
    /\ UNCHANGED <<now, settings, gateVars, recordVars, poolVars, wantedVars, batchVars,
                   refined, threads, objects, movies>>

\* the missing_subtitles of the episode row as selected (lines 903-919 take
\* the row whatever the column holds)
EpisodeRowInputs == { <<>>, <<EN>>, <<EN, FR>> }

\* lines 926-938, 992-994: a turn of the loop begins. get_providers() is
\* read; empty, the loop breaks; otherwise the progress is shown if asked.
\* episode: the row of this turn, whose missing_subtitles column other jobs
\* write from now on
EpisodePoll ==
    /\ job.fn = "episode_download_subtitles"
    /\ job.pc = "loop"
    /\ job.i <= job.n
    /\ ~job.polled
    /\ IF get_providers = {}
       THEN /\ job' = [job EXCEPT !.pc = "done", !.empty_at = job.i]
            /\ UNCHANGED missing_subtitles
       ELSE \E episode \in EpisodeRowInputs :
               /\ missing_subtitles' = episode
               /\ job' = [(IF job.send_progress
                            THEN Show(job, "episode_search_progress") ELSE job)
                             EXCEPT !.polled = TRUE, !.episode = episode, !.k = 1,
                                    !.languages = <<>>]
    /\ UNCHANGED <<now, settings, gateVars, recordVars, poolVars, wanted, searches, batchVars,
                   refined, threads, objects, movies>>

\* lines 946-959: one turn of the loop over the row's missing languages:
\* the column is read again, and a language it no longer holds is passed
\* over
EpisodeLanguage ==
    /\ job.fn = "episode_download_subtitles"
    /\ job.pc = "loop"
    /\ job.polled
    /\ job.k <= Len(job.episode)
    /\ LET language == job.episode[job.k]
       IN  job' = [job EXCEPT
                     !.k = @ + 1,
                     !.languages = IF ConfirmedMissing(language, missing_subtitles)
                                   THEN Append(@, LanguageTriple(language)) ELSE @]
    /\ UNCHANGED <<now, settings, gateVars, recordVars, poolVars, wantedVars, batchVars,
                   refined, threads, objects, movies>>

\* lines 961-991: the rest of the turn, run on the settings as they are now:
\* the wrapper of generate_subtitles reads get_providers() again;
\* store_subtitles takes what was saved off the missing list
EpisodeItem ==
    /\ job.fn = "episode_download_subtitles"
    /\ job.pc = "loop"
    /\ job.polled
    /\ job.k > Len(job.episode)
    /\ \E video_ok \in BOOLEAN, nothing_found \in BOOLEAN :
        LET id == "episode_search_progress"
            languages == job.languages
            tokens == TokensOf(languages)
            found == IF nothing_found THEN {}
                     ELSE { languages[k] : k \in 1..Len(languages) }
            r == generate_subtitles(_pools, 6, languages, "series", NoProfile,
                                    video_ok, found, NoScore, Env0)
            saved == { HistoryCodes(r)[k] : k \in 1..Len(r.results) }
        IN  IF languages = <<>>
            THEN /\ video_ok /\ nothing_found
                 /\ job' = [job EXCEPT !.i = @ + 1, !.polled = FALSE]
                 /\ UNCHANGED <<_pools, call, missing_subtitles>>
            ELSE /\ _pools' = r.pools
                 /\ call' = Call("generate_subtitles", 6, "series", NoProfile,
                                 [tokens |-> tokens, forced_minimum_score |-> NoScore,
                                  env |-> Env0, build_raises |-> ~video_ok, found |-> found],
                                 r)
                 /\ missing_subtitles' = RemoveTokens(missing_subtitles, saved)
                 /\ job' = [(IF job.send_progress THEN Hide(job, id) ELSE job)
                               EXCEPT !.i = @ + 1, !.polled = FALSE]
    /\ UNCHANGED <<now, settings, gateVars, recordVars, wanted, searches, config, batchVars,
                   refined, threads, objects, movies>>

\* the loop is exhausted: the function returns
EpisodeEnd ==
    /\ job.fn = "episode_download_subtitles"
    /\ job.pc = "loop"
    /\ job.i > job.n
    /\ job' = [job EXCEPT !.pc = "done"]
    /\ UNCHANGED <<now, settings, gateVars, recordVars, poolVars, wantedVars, batchVars,
                   refined, threads, objects, movies>>

NextEpisode ==
    \/ ChangeConfig
    \/ OtherJobSaves
    \/ EpisodeStart
    \/ EpisodePoll
    \/ EpisodeLanguage
    \/ EpisodeItem
    \/ EpisodeEnd

SpecEpisode == InitJobs /\ [][NextEpisode]_vars

\* C29: when episode_download_subtitles(no, send_progress=True) has
\* returned, every progress indicator it showed for an episode is hidden
\* again, also when no language was left missing at the re-check.
C29_EpisodeProgressHidden ==
    (job.fn = "episode_download_subtitles" /\ job.send_progress /\ job.pc = "done")
    => \A id \in job.shown : job.progress[id] = "hidden"

\* ------------------------------------------------------------------------
\* The freshness re-check: one of series_download_subtitles,
\* episode_download_subtitles and the wanted sweeps (_wanted_episode,
\* _wanted_movie) runs on an item while other jobs save its subtitles
\* ------------------------------------------------------------------------
FreshSeries == job.pc = "idle" /\ BatchStart
FreshEpisode == batch.pc = "idle" /\ EpisodeStart
FreshWanted == batch.pc = "idle" /\ SweepStart

NextFresh ==
    \/ OtherJobSaves
    \/ FreshSeries
    \/ BatchPoll
    \/ BatchLanguage
    \/ BatchEpisode
    \/ BatchEnd
    \/ FreshEpisode
    \/ EpisodePoll
    \/ EpisodeLanguage
    \/ EpisodeItem
    \/ EpisodeEnd
    \/ FreshWanted
    \/ SweepItem
    \/ SweepDownload
    \/ WantedLanguage
    \/ WantedSearch
    \/ SweepItemReturns
    \/ SweepEnd

SpecFresh == InitJobs /\ [][NextFresh]_vars

\* C25: in series_download_subtitles, episode_download_subtitles,
\* _wanted_episode and _wanted_movie a language of the selected missing list
\* is put on the list for generate_subtitles only if the missing_subtitles
\* column of the item, read again at that language's turn, still holds it;
\* and the list generate_subtitles is called with is the list so collected.
C25_OnlyStillMissing ==
    [][ /\ Len(batch'.languages) > Len(batch.languages)
           => InSeq(TokenOf(batch'.languages[Len(batch'.languages)]), missing_subtitles)
        /\ Len(job'.languages) > Len(job.languages)
           => InSeq(TokenOf(job'.languages[Len(job'.languages)]), missing_subtitles)
        /\ Len(wanted'.languages) > Len(wanted.languages)
           => InSeq(TokenOf(wanted'.languages[Len(wanted'.languages)]), missing_subtitles)
        /\ (batch.pc = "turn" /\ batch'.pc # "turn" /\ batch.languages # <<>>)
           => /\ call'.fn = "generate_subtitles"
              /\ call'.inp.tokens = TokensOf(batch.languages)
        /\ (job.polled /\ ~job'.polled /\ job.languages # <<>>)
           => /\ call'.fn = "generate_subtitles"
              /\ call'.inp.tokens = TokensOf(job.languages)
        /\ (wanted.pc = "loop" /\ wanted'.pc = "idle")
           => /\ call'.fn = "generate_subtitles"
              /\ call'.inp.tokens = TokensOf(wanted.languages) ]_vars

\* series_download_subtitles: of the two selected languages the first one
\* was saved by another job before its turn and is left out of the call
C25_Witness ==
    /\ call.fn = "generate_subtitles"
    /\ batch.episode = <<EN, FR>>
    /\ batch.k = 3
    /\ batch.languages = <<LanguageTriple(FR)>>
    /\ call.inp.tokens = <<FR>>
    /\ call.language_set = { Variant("fra", FALSE, FALSE) }

\* ------------------------------------------------------------------------
\* Manual searches for an episode, on every list the providers may return
\* ------------------------------------------------------------------------
\* a manual search from the API for an episode: all arguments positional
SearchManualSeries ==
    /\ call = NoCall
    /\ \E candidates \in SeriesCandidatesInputs, fault \in {"none", "provider"} :
        LET language_items == <<Item("en", "False", "False")>>
            env == Env(NoScore, NoScore, fault = "provider", FALSE)
            r == manual_search(_pools, 7, 1, get_providers, "series", language_items,
                               get_video(FALSE) # NoVideo, candidates, env)
        IN  /\ _pools' = r.pools
            /\ call' = Call("manual_search", 7, "series", 1,
                            [language_items |-> language_items, candidates |-> candidates,
                             env |-> env, build_raises |-> FALSE],
                            r)
    /\ UNCHANGED <<now, settings, gateVars, recordVars, wantedVars, config, batchVars, sideVars>>

NextSeriesSearch == SearchManualSeries \/ CallReturns

SpecSeriesSearch == InitSearch /\ [][NextSeriesSearch]_vars

\* C30: manual_search for a series returns no subtitle that cannot be
\* hash-verified and whose declared matches lack one of series, season and
\* episode.
C30_UnverifiableWrongEpisodeDiscarded ==
    (call.fn = "manual_search" /\ call.media_type = "series" /\ call.outcome = "listed")
    => \A k \in 1..Len(call.results) :
          ~(/\ ~call.results[k].hash_verifiable
            /\ ~(EpisodeMatches \subseteq call.results[k].matches))

\* C31: upgrade_subtitles issues an upgrade search for a history row only if
\* the row's timestamp is inside the upgrade window, its subtitle file still
\* exists and its score is an integer below the near-perfect score (357 for
\* episodes, 117 for movies), whether the row was downloaded automatically
\* or manually.
C31_UpgradeOnlyRecentKeptImperfect ==
    (job.fn = "upgrade_subtitles" /\ call.fn = "generate_subtitles")
    => /\ call.inp.entry.timestamp > job.started - job.days_to_upgrade_subs
       /\ call.inp.entry.exists
       /\ call.inp.entry.score.kind = "int"
       /\ call.inp.entry.score.v < (IF call.media_type = "series" THEN 357 ELSE 117)

\* an upgrade search was issued for a manually downloaded row
C31_Witness ==
    /\ job.fn = "upgrade_subtitles"
    /\ job.upgrade_manual
    /\ call.fn = "generate_subtitles"
    /\ call.outcome = "searched"
    /\ call.inp.entry.action = 2

\* the order the operations of a run come in
EventOrder ==
    <<"update_pool", "get_video", "download_best_subtitles", "save_subtitles",
      "yield", "store_subtitles", "history_log", "send_notifications">>
Rank(e) == CHOOSE n \in 1..Len(EventOrder) : EventOrder[n] = e

\* C32: in every run of generate_subtitles consumed by the loop of
\* series_download_subtitles, the operations come in the order pool refresh,
\* get_video, provider query, save, yield of a tuple, history_log,
\* send_notifications (the last three once per tuple); a tuple is yielded
\* only after a save_subtitles that did not raise, and history_log is called
\* only for a tuple that was yielded.
C32_RunOrder ==
    (call.fn = "generate_subtitles" /\ batch.log # <<>>)
    => /\ batch.log[1].e = "update_pool"
       /\ \A i, j \in 1..Len(batch.log) :
            (i < j /\ batch.log[i].k \in {0, batch.log[j].k})
            => Rank(batch.log[i].e) <= Rank(batch.log[j].e)
       /\ \A i, j \in 1..Len(batch.log) :
            (i < j /\ batch.log[j].k = 0) => batch.log[i].k = 0
       /\ \A j \in 1..Len(batch.log) :
            batch.log[j].e = "yield"
            => /\ ~call.inp.env.save_raises
               /\ \E i \in 1..(j - 1) : batch.log[i].e = "save_subtitles"
       /\ \A j \in 1..Len(batch.log) :
            batch.log[j].e \in {"history_log", "send_notifications"}
            => \E i \in 1..(j - 1) :
                  batch.log[i].e = "yield" /\ batch.log[i].k = batch.log[j].k
       /\ \A j \in 2..Len(batch.log) :
            batch.log[j].e = "send_notifications"
            => batch.log[j - 1] = LogEntry("history_log", batch.log[j].k)

\* a run that saved two subtitles: every operation of the order happened, the
\* second tuple was yielded after the first was notified
C32_Witness ==
    /\ call.fn = "generate_subtitles"
    /\ { batch.log[i].e : i \in 1..Len(batch.log) } = { EventOrder[n] : n \in 1..Len(EventOrder) }
    /\ \E i, j \in 1..Len(batch.log) :
          /\ i < j
          /\ batch.log[i] = LogEntry("send_notifications", 1)
          /\ batch.log[j] = LogEntry("yield", 2)

Occurrences(e, s) == Cardinality({ i \in 1..Len(s) : s[i] = e })

\* the entries of a language in a list
EntriesOf(l, s) == { s[i] : i \in { j \in 1..Len(s) : s[j].lang = l } }

\* C33: when updateFailedAttempts(lang, history) returns, every entry of a
\* language other than lang stands in the list it returns as text as many
\* times as in the input. The returned text is that list as written by
\* str(): where it reads back as a list, the entries read are those.
C33_OtherLanguagesUntouched ==
    (UpdateCalled /\ updated.exc = "none")
    => LET out == updated_attempts(last_op.lang, AsList(input_attempts).items, now)
       IN  /\ updated.val = str_updated_attempts(out)
           /\ updated.val.kind = "list" => updated.val.items = out
           /\ \A l \in Langs \ {last_op.lang} :
                 \A e \in EntriesOf(l, out) \cup EntriesOf(l, AsList(input_attempts).items) :
                    Occurrences(e, out) = Occurrences(e, AsList(input_attempts).items)

\* the update ran on a history with entries of the language and two entries
\* of another one
C33_Witness ==
    /\ UpdateCalled
    /\ updated.exc = "none"
    /\ CountOf(last_op.lang, AsList(input_attempts)) >= 1
    /\ \E l \in Langs \ {last_op.lang} : CountOf(l, AsList(input_attempts)) = 2

\* C34: refine_from_ffprobe leaves unchanged every descriptor field that
\* holds a value when it runs: resolution, video codec, fps, audio codec,
\* and the audio-language set when it is not empty.
C34_ProbeFillsUnsetOnly ==
    [][(refined.pc = "refined" /\ refined'.pc = "probed")
       => /\ \A a \in {"resolution", "video_codec", "fps", "audio_codec"} :
               Truthy(refined.video[a]) => refined'.video[a] = refined.video[a]
          /\ refined.video.audio_languages # {}
             => refined'.video.audio_languages = refined.video.audio_languages]_vars

\* C35: for an episode whose guess gives no resolution and whose library row
\* has a null resolution, the resolved descriptor has the probed resolution
\* whenever the cached ffprobe result carries one.
C35_ProbedResolutionFillsNull ==
    ( /\ refined.pc = "probed"
      /\ refined.kind = "episode"
      /\ ~Truthy(refined.guess.resolution)
      /\ refined.data # NoRow
      /\ refined.data.resolution = Null
      /\ "resolution" \in refined.ffprobe.video.keys )
    => refined.video.resolution = Probed("resolution")

\* C36: in every call of a function wrapped by update_pools, with media_type
\* and profile_id passed by position or by keyword, the wrapper raises no
\* exception of its own and the pool key it refreshes is the key the wrapped
\* function then gets with _get_pool.
C36_WrapperRefreshesCallKey ==
    call.fn \in Orchestrators
    => /\ call.outcome # "IndexError"
       /\ call.events # <<>>
       /\ call.events[1].e = "update_pool"
       /\ call.events[1].key = PoolKey(call.media_type, call.profile_id)

\* the number a text of digits writes
RECURSIVE NumberOf(_)
NumberOf(s) == IF s = <<>> THEN 0 ELSE 10 * NumberOf(SubSeq(s, 1, Len(s) - 1)) + DigitVal(s[Len(s)])

\* a setting of the form "<N>d" or "<N>w", N a positive integer
WholeWindow(s) ==
    /\ Len(s) >= 2
    /\ s[Len(s)] \in {"d", "w"}
    /\ \A i \in 1..(Len(s) - 1) : s[i] \in Digits
    /\ NumberOf(SubSeq(s, 1, Len(s) - 1)) > 0

\* N days, or N weeks in days
WindowDays(s) ==
    NumberOf(SubSeq(s, 1, Len(s) - 1)) * (IF s[Len(s)] = "w" THEN 7 ELSE 1)

\* C37: for every adaptive_searching_delay and adaptive_searching_delta of
\* the form "<N>d" or "<N>w", N a positive integer of one or more digits,
\* the window is_search_active uses is N days or N weeks.
C37_WindowIsWholeNumber ==
    ( /\ GateCalled
      /\ settings.adaptive_searching
      /\ WellFormed(input_attempts)
      /\ TimesOf(last_op.lang, input_attempts) # {} )
    => /\ WholeWindow(settings.adaptive_searching_delay)
          => /\ ParseWindow(settings.adaptive_searching_delay).exc = "none"
             /\ DelayWindow(settings) = WindowDays(settings.adaptive_searching_delay)
       /\ WholeWindow(settings.adaptive_searching_delta)
          => /\ ParseWindow(settings.adaptive_searching_delta).exc = "none"
             /\ DeltaWindow(settings) = WindowDays(settings.adaptive_searching_delta)

\* ------------------------------------------------------------------------
\* The gate asked again and again on one history while time advances
\* ------------------------------------------------------------------------
NextGateFair == Tick \/ CallIsSearchActive

\* the clock keeps advancing (up to MaxNow); nothing is recorded
SpecGateFair == InitGate /\ [][NextGateFair]_vars /\ WF_vars(Tick)

\* C38: for every well-formed history and every language, with time
\* advancing and no further attempt recorded, from some instant on every
\* call of is_search_active for the language returns True.
C38_GateOpensForGood ==
    \A l \in Langs :
        WellFormed(input_attempts)
        => <>[]((GateCalled /\ last_op.lang = l) => active = Ret(TRUE))

\* the gate returns True for a language it had reason to block: adaptive
\* searching is on, the delay window of the language is over and the delta
\* window after its latest attempt has passed
C38_Witness ==
    /\ GateCalled
    /\ settings.adaptive_searching
    /\ WindowsParse(settings)
    /\ DeltaWindow(settings) > 0
    /\ WellFormed(input_attempts)
    /\ TimesOf(last_op.lang, input_attempts) # {}
    /\ now >= SetMin(TimesOf(last_op.lang, input_attempts)) + DelayWindow(settings)
    /\ now >= SetMax(TimesOf(last_op.lang, input_attempts)) + DeltaWindow(settings)
    /\ active = Ret(TRUE)

====
